---- MODULE Spec2Model ----
(***************************************************************************)
(* The name-resolution pipeline of crawler3.py: http_get (the resilient    *)
(* fetcher), is_non_product_page and _extract_canonical_url (the page      *)
(* classifier), extract_product_name and _derive_name_from_slug (the name  *)
(* extractor and its slug fallback) and process_single_url (the per-record *)
(* orchestration).                                                         *)
(*                                                                         *)
(* A Python str is a sequence of one-character strings, so that lower(),   *)
(* strip(), split(), startswith() and the "in" test are computed character *)
(* by character.  Three characters outside ASCII are written as the tokens *)
(* "emdash", "endash" and "bullet".  A value that may be None is either    *)
(* None or, for a str, Some(s).                                            *)
(***************************************************************************)
EXTENDS Integers, Sequences, FiniteSets, TLC

None == [isNone |-> TRUE]

Some(v) == [val |-> v]

(***************************************************************************)
(* Python str operations                                                   *)
(***************************************************************************)
\* the upper-case letters with their lower-case forms, and the reverse
LOWER_OF ==
    [A |-> "a", B |-> "b", C |-> "c", D |-> "d", E |-> "e", F |-> "f", G |-> "g", H |-> "h", I |-> "i",
     J |-> "j", K |-> "k", L |-> "l", M |-> "m", N |-> "n", O |-> "o", P |-> "p", Q |-> "q", R |-> "r",
     S |-> "s", T |-> "t", U |-> "u", V |-> "v", W |-> "w", X |-> "x", Y |-> "y", Z |-> "z"]

UPPER_OF ==
    [a |-> "A", b |-> "B", c |-> "C", d |-> "D", e |-> "E", f |-> "F", g |-> "G", h |-> "H", i |-> "I",
     j |-> "J", k |-> "K", l |-> "L", m |-> "M", n |-> "N", o |-> "O", p |-> "P", q |-> "Q", r |-> "R",
     s |-> "S", t |-> "T", u |-> "U", v |-> "V", w |-> "W", x |-> "X", y |-> "Y", z |-> "Z"]

IsUpper(c) == c \in DOMAIN LOWER_OF

IsLower(c) == c \in DOMAIN UPPER_OF

IsAlphaChar(c) == IsUpper(c) \/ IsLower(c)

LowerChar(c) == IF IsUpper(c) THEN LOWER_OF[c] ELSE c

UpperChar(c) == IF IsLower(c) THEN UPPER_OF[c] ELSE c

IsSpace(c) == c \in {" ", "\n", "\t", "\r"}

\* str.lower()
lower(s) == SubSeq([i \in 1..Len(s) |-> LowerChar(s[i])], 1, Len(s))

\* str.capitalize(): first character upper-cased, the rest lower-cased
capitalize(s) ==
    SubSeq([i \in 1..Len(s) |-> IF i = 1 THEN UpperChar(s[i]) ELSE LowerChar(s[i])], 1, Len(s))

\* str.isalpha(): non-empty and every character alphabetic
isalpha(s) == Len(s) > 0 /\ \A i \in 1..Len(s) : IsAlphaChar(s[i])

MinOf(S) == CHOOSE m \in S : \A n \in S : m <= n

MaxOf(S) == CHOOSE m \in S : \A n \in S : m >= n

\* the positions at which sub occurs in s
Occurrences(s, sub) == {i \in 1..(Len(s) - Len(sub) + 1) : SubSeq(s, i, i + Len(sub) - 1) = sub}

\* sub in s
contains(s, sub) == \E i \in 1..(Len(s) - Len(sub) + 1) : SubSeq(s, i, i + Len(sub) - 1) = sub

startswith(s, p) == Len(s) >= Len(p) /\ SubSeq(s, 1, Len(p)) = p

endswith(s, p) == Len(s) >= Len(p) /\ SubSeq(s, Len(s) - Len(p) + 1, Len(s)) = p

\* str.strip(chars) for a set of characters
strip_chars(s, chars) ==
    IF \A i \in 1..Len(s) : s[i] \in chars THEN <<>>
    ELSE LET first == CHOOSE i \in 1..Len(s) :
                         s[i] \notin chars /\ \A j \in 1..(i - 1) : s[j] \in chars
             last  == CHOOSE i \in 1..Len(s) :
                         s[i] \notin chars /\ \A j \in (i + 1)..Len(s) : s[j] \in chars
         IN  SubSeq(s, first, last)

\* str.strip()
strip(s) == strip_chars(s, {" ", "\n", "\t", "\r"})

\* s.split(sep)[0]: the text before the first occurrence of sep (s itself if none)
split_first(s, sep) ==
    IF contains(s, sep) THEN SubSeq(s, 1, MinOf(Occurrences(s, sep)) - 1) ELSE s

\* s.split(sep, 1)[0] and s.rsplit(sep, 1)[-1]
rsplit_last(s, sep) ==
    IF contains(s, sep) THEN SubSeq(s, MaxOf(Occurrences(s, sep)) + Len(sep), Len(s)) ELSE s

\* F(1) \o F(2) \o ... \o F(n)
Concat(F(_), n) ==
    LET cat[lo \in 1..(n + 1), hi \in 0..n] ==
            IF lo > hi THEN <<>>
            ELSE IF lo = hi THEN F(lo)
            ELSE cat[lo, (lo + hi) \div 2] \o cat[((lo + hi) \div 2) + 1, hi]
    IN  cat[1, n]

\* Step(... Step(Step(init, 1), 2) ..., n): a loop over a list of n items
Fold(Step(_, _), init, n) ==
    LET acc[i \in 0..n] == IF i = 0 THEN init ELSE Step(acc[i - 1], i)
    IN  acc[n]

\* " ".join(s.split()): runs of whitespace become one space, the ends are stripped
join_split_stripped(t) ==
    Concat(LAMBDA i : IF ~IsSpace(t[i]) THEN <<t[i]>>
                      ELSE IF IsSpace(t[i - 1]) THEN <<>> ELSE <<" ">>,
           Len(t))

join_split(s) == join_split_stripped(strip(s))

\* re.split(r"[-_]+", s) without the empty pieces: the maximal runs free of "-" and "_"
IsWordStart(s, i) == s[i] \notin {"-", "_"} /\ (i = 1 \/ s[i - 1] \in {"-", "_"})

WordEnd(s, i) ==
    CHOOSE j \in i..Len(s) :
        /\ \A k \in i..j : s[k] \notin {"-", "_"}
        /\ (j = Len(s) \/ s[j + 1] \in {"-", "_"})

split_words(s) ==
    Concat(LAMBDA i : IF IsWordStart(s, i) THEN <<SubSeq(s, i, WordEnd(s, i))>> ELSE <<>>, Len(s))

\* " ".join(words)
join_space(words) ==
    Concat(LAMBDA i : IF i = 1 THEN words[i] ELSE <<" ">> \o words[i], Len(words))

\* n copies of the character c
Rep(c, n) == SubSeq([i \in 1..n |-> c], 1, n)

(***************************************************************************)
(* URLs.  A URL is the record of the parts urlparse() gives; two URL       *)
(* strings are equal iff their records are (the scheme is lower case and a *)
(* query or fragment is written only when it is not empty).  A URL with an *)
(* empty scheme is a relative reference.  params are the parameters of the *)
(* last path segment (";v=1"), which urlparse() splits off the path.       *)
(***************************************************************************)
Url(scheme, host, path, query, fragment) ==
    [scheme |-> scheme, host |-> host, path |-> path, params |-> <<>>, query |-> query,
     fragment |-> fragment]

\* urlunparse((parsed.scheme, parsed.netloc, parsed.path, '', '', ''))
StripQueryFragment(url) == [url EXCEPT !.params = <<>>, !.query = <<>>, !.fragment = <<>>]

(***************************************************************************)
(* Pages.  The HTML text of a page is modelled by what the code reads of   *)
(* it: body (text outside the modelled elements), els (the elements in     *)
(* document order: tag, one class, one attribute "key", the tag and class  *)
(* of one ancestor, the text node and the content attribute), canonical    *)
(* (the <link rel="canonical"> element: None, or its href), ld (the        *)
(* application/ld+json script blocks, parsed) and winsku (the sku group of *)
(* a window.product block as the pattern of line 401 finds it).            *)
(***************************************************************************)
Element(tag, cls, key, anc_tag, anc_cls, text, content) ==
    [tag |-> tag, cls |-> cls, key |-> key, anc_tag |-> anc_tag, anc_cls |-> anc_cls,
     text |-> text, content |-> content]

Page(body, els, canonical, ld, winsku) ==
    [body |-> body, els |-> els, canonical |-> canonical, ld |-> ld, winsku |-> winsku]

EmptyHref == [empty |-> TRUE]

\* a <link rel="canonical" href=...> element
Link(href) == [href |-> href]

OpenTag(el) ==
    IF el.tag = "title" THEN <<"<", "t", "i", "t", "l", "e", ">">>
    ELSE IF el.tag = "h1" THEN <<"<", "h", "1", ">">>
    ELSE IF el.tag = "meta" THEN <<"<", "m", "e", "t", "a", " ", "c", "o", "n", "t", "e", "n", "t", "=">>
    ELSE <<"<", "s", "p", "a", "n", ">">>

RenderEls(els) ==
    Concat(LAMBDA i : OpenTag(els[i]) \o els[i].content \o els[i].text, Len(els))

RenderLd(blocks) ==
    Concat(LAMBDA i : <<"<", "s", "c", "r", "i", "p", "t", ">">> \o (IF blocks[i].name = None THEN <<>> ELSE blocks[i].name.val),
           Len(blocks))

\* the HTML text itself, as far as the substring tests of the code can see it
Raw(page) ==
    page.body \o RenderEls(page.els) \o RenderLd(page.ld)
    \o (IF page.winsku = None THEN <<>> ELSE page.winsku.val)

\* a variant of Truthy that tests "html is not None"
Truthy_not_none(doc) == doc # None

\* what "if html:" tests: None and the empty text are false
Truthy(doc) == doc # None /\ Raw(doc) # <<>>

(***************************************************************************)
(* PageClassifier                                                          *)
(***************************************************************************)
has_non_product_marker(lw) ==
    \/ contains(lw, <<"p", "a", "g", "e", "T", "y", "p", "e">>) /\ contains(lw, <<"c", "a", "r", "t">>)
    \/ /\ contains(lw, <<"<", "m", "e", "t", "a", " ", "n", "a", "m", "e", "=", "\"", "r", "o", "b", "o", "t", "s", "\"", " ", "c", "o", "n", "t", "e", "n", "t", "=", "\"", "n", "o", "i", "n", "d", "e", "x", ",", "n", "o", "f", "o", "l", "l", "o", "w", "\"">>)
       /\ (contains(lw, <<"w", "a", "r", "e", "n", "k", "o", "r", "b">>) \/ contains(lw, <<"c", "a", "r", "t">>))
    \/ contains(lw, <<"<", "t", "i", "t", "l", "e", ">", "w", "a", "r", "e", "n", "k", "o", "r", "b">>)
    \/ contains(lw, <<"c", "h", "e", "c", "k", "o", "u", "t", "/", "c", "a", "r", "t", "/">>)

\* lower = html.lower(), then the marker tests on lower
is_non_product_page(doc) == has_non_product_marker(lower(Raw(doc)))

\* soup.find('link', rel=canonical), then (href or '').strip() or None
extract_canonical_url(doc) ==
    IF doc.canonical = None THEN None
    ELSE IF doc.canonical.href = EmptyHref THEN None
    ELSE doc.canonical.href

(***************************************************************************)
(* NameExtractor                                                           *)
(***************************************************************************)
bot_wall_indicators == <<<<"c", "l", "o", "u", "d", "f", "l", "a", "r", "e">>, <<"c", "a", "p", "t", "c", "h", "a">>, <<"a", "t", "t", "e", "n", "t", "i", "o", "n", " ", "r", "e", "q", "u", "i", "r", "e", "d">>, <<"a", "c", "c", "e", "s", "s", " ", "d", "e", "n", "i", "e", "d">>>>

TITLE_SEPARATORS == <<<<" ", "|", " ">>, <<" ", "-", " ">>, <<" ", "emdash", " ">>, <<" ", "endash", " ">>>>

BRAND_TOKENS == <<<<"g", "l", "a", "m", "i", "r", "a">>, <<"s", "t", "o", "r", "e">>, <<"s", "h", "o", "p">>>>

marketing_prefixes ==
    <<<<"K", "a", "u", "f", "e", "n", " ", "S", "i", "e", " ">>, <<"A", "c", "h", "e", "t", "e", "z", " ">>, <<"A", "c", "h", "e", "t", "e", "r", " ">>, <<"B", "u", "y", " ">>, <<"C", "o", "m", "p", "r", "a", " ">>, <<"C", "o", "m", "p", "r", "e", " ">>>>

skip_phrases ==
    <<<<"4", "0", "4">>, <<"n", "o", "t", " ", "f", "o", "u", "n", "d">>, <<"e", "r", "r", "o", "r">>, <<"p", "a", "g", "e", " ", "n", "o", "t", " ", "f", "o", "u", "n", "d">>, <<"h", "o", "m", "e">>, <<"s", "h", "o", "p">>, <<"s", "t", "o", "r", "e">>,
      <<"c", "a", "t", "a", "l", "o", "g">>, <<"p", "r", "o", "d", "u", "c", "t", "s">>>>

\* text.replace('\n', ' ').replace('\t', ' ').replace('\r', ' ') then ' '.join(text.split())
collapse_whitespace(text) == join_split(text)

\* a variant of cut_at_separator that leaves the text whole
cut_at_separator_keeps_all(text, i) == text

\* for sep in [...]: if sep in text: text = text.split(sep)[0].strip()
cut_at_separator(text, i) ==
    IF contains(text, TITLE_SEPARATORS[i]) THEN strip(split_first(text, TITLE_SEPARATORS[i]))
    ELSE text

cut_at_separators(text) == Fold(cut_at_separator, text, Len(TITLE_SEPARATORS))

\* for token in [...]: if cleaned.lower().endswith(token): cleaned = cleaned[:-len(token)].strip(" -|•")
strip_brand_token(text, i) ==
    IF endswith(lower(text), BRAND_TOKENS[i])
    THEN strip_chars(SubSeq(text, 1, Len(text) - Len(BRAND_TOKENS[i])), {" ", "-", "|", "bullet"})
    ELSE text

strip_brand_tokens(text) == Fold(strip_brand_token, text, Len(BRAND_TOKENS))

\* for pref in marketing_prefixes: if text.startswith(pref): text = text[len(pref):].strip()
strip_marketing_prefix(text, i) ==
    IF startswith(text, marketing_prefixes[i])
    THEN strip(SubSeq(text, Len(marketing_prefixes[i]) + 1, Len(text)))
    ELSE text

strip_marketing_prefixes(text) == Fold(strip_marketing_prefix, text, Len(marketing_prefixes))

contains_any(s, phrases) == \E i \in 1..Len(phrases) : contains(s, phrases[i])

\* any(phrase in text.lower() for phrase in skip_phrases)
has_skip_phrase(text) == contains_any(lower(text), skip_phrases)

\* BeautifulSoup(html, "html.parser"): the elements and the script blocks
Soup(doc) == [els |-> doc.els, scripts |-> doc.ld]

\* for script in soup(["script", "style"]): script.decompose()
Decompose(soup) == [soup EXCEPT !.scripts = <<>>]

\* extract_name(obj) of the structured-data stage: the declared name of a Product
ld_extract_name(obj) ==
    IF lower(obj.type) = <<"p", "r", "o", "d", "u", "c", "t">> /\ obj.name # None /\ obj.name.val # <<>>
    THEN Some(strip(obj.name.val))
    ELSE None

\* the cleaning and acceptance of one structured-data candidate (None: not accepted)
ld_clean(candidate) ==
    IF candidate # None /\ candidate.val # <<>> /\ 3 < Len(candidate.val) /\ Len(candidate.val) < 200
    THEN LET cleaned == strip_brand_tokens(cut_at_separators(collapse_whitespace(candidate.val)))
         IN  IF cleaned # <<>> /\ 3 < Len(cleaned) /\ Len(cleaned) < 200 THEN Some(cleaned) ELSE None
    ELSE None

\* stage 2: the first ld+json script block, in document order, with an accepted name
structured_data_stage(scripts) ==
    LET hits == {i \in 1..Len(scripts) : ld_clean(ld_extract_name(scripts[i])) # None}
    IN  IF hits = {} THEN None ELSE ld_clean(ld_extract_name(scripts[MinOf(hits)]))

\* stage 3: both dataLayer patterns open a group that is never closed ("\\(" is a
\* backslash followed by "("), so re.findall raises re.error on every html and the
\* except clause of line 398 abandons the stage
data_layer_stage(doc) == None

\* stage 4: the sku of the window.product block, stripped, if 2 < len < 200
window_product_stage(doc) ==
    IF doc.winsku = None THEN None
    ELSE LET sku_val == strip(doc.winsku.val)
         IN  IF 2 < Len(sku_val) /\ Len(sku_val) < 200 THEN Some(sku_val) ELSE None

Sel(anc_tag, anc_cls, tag, cls, key) ==
    [anc_tag |-> anc_tag, anc_cls |-> anc_cls, tag |-> tag, cls |-> cls, key |-> key]

selectors ==
    << Sel("h1", "page-title", "span", "base", ""),
       Sel("", "", "h1", "page-title", ""),
       Sel("", "", "", "page-title", ""),
       Sel("", "", "h1", "product-title", ""),
       Sel("", "", "h1", "product-name", ""),
       Sel("", "", "", "product-title", ""),
       Sel("", "", "", "product-name", ""),
       Sel("", "product-info", "h1", "", ""),
       Sel("", "product-details", "h1", "", ""),
       Sel("", "product-header", "h1", "", ""),
       Sel("", "", "", "", "itemprop=name"),
       Sel("", "", "", "", "data-testid=product-title"),
       Sel("", "", "", "", "data-testid=product-name"),
       Sel("", "", "", "", "data-role=product-name"),
       Sel("", "", "meta", "", "property=og:title"),
       Sel("", "", "meta", "", "name=title"),
       Sel("", "", "h1", "", ""),
       Sel("", "", "title", "", "") >>

Matches(el, sel) ==
    /\ sel.tag \in {"", el.tag}
    /\ sel.cls \in {"", el.cls}
    /\ sel.key \in {"", el.key}
    /\ sel.anc_tag \in {"", el.anc_tag}
    /\ sel.anc_cls \in {"", el.anc_cls}

\* soup.select_one(sel): the first matching element in document order
select_one(soup, sel) ==
    LET hits == {i \in 1..Len(soup.els) : Matches(soup.els[i], sel)}
    IN  IF hits = {} THEN None ELSE soup.els[MinOf(hits)]

\* the text a selector yields: the content attribute of a meta element, else
\* get_text(strip=True); None when nothing matches
selector_text(soup, sel) ==
    LET el == select_one(soup, sel)
    IN  IF el = None THEN None
        ELSE IF sel.tag = "meta" THEN Some(strip(el.content))
        ELSE Some(strip(el.text))

\* if not any(phrase in text.lower() ...): return text
accept_unless_skipped(cleaned) == IF ~has_skip_phrase(cleaned) THEN Some(cleaned) ELSE None

\* the cleaning and acceptance of one selector's text (None: try the next selector)
selector_clean(text) ==
    IF text # None /\ text.val # <<>> /\ Len(text.val) > 3 /\ Len(text.val) < 300
    THEN accept_unless_skipped(
             strip_marketing_prefixes(cut_at_separators(collapse_whitespace(text.val))))
    ELSE None

\* a variant of selector_stage that ends at the first selector that has a text of
\* acceptable length, whether or not that text is then accepted
selector_stage_ends_at_first_text(soup) ==
    LET hits == {i \in 1..Len(selectors) :
                    LET text == selector_text(soup, selectors[i])
                    IN  text # None /\ Len(text.val) > 3 /\ Len(text.val) < 300}
    IN  IF hits = {} THEN None ELSE selector_clean(selector_text(soup, selectors[MinOf(hits)]))

\* stage 5: the first selector, in list order, whose text is accepted
selector_stage(soup) ==
    LET hits == {i \in 1..Len(selectors) : selector_clean(selector_text(soup, selectors[i])) # None}
    IN  IF hits = {} THEN None ELSE selector_clean(selector_text(soup, selectors[MinOf(hits)]))

\* a variant of has_bot_wall that tests the text as it is, without lower()
has_bot_wall_case_sensitive(doc) == contains_any(Raw(doc), bot_wall_indicators)

\* any(ind in lower_html for ind in bot_wall_indicators)
has_bot_wall(doc) == contains_any(lower(Raw(doc)), bot_wall_indicators)

\* a variant of extract_product_name without the test for a bot wall
extract_product_name_without_bot_test(doc) ==
    LET soup == Decompose(Soup(doc))
        s2 == structured_data_stage(soup.scripts)
        s3 == data_layer_stage(doc)
        s4 == window_product_stage(doc)
    IN  IF s2 # None THEN s2
        ELSE IF s3 # None THEN s3
        ELSE IF s4 # None THEN s4
        ELSE selector_stage(soup)

extract_product_name(doc) ==
    IF has_bot_wall(doc) THEN None
    ELSE LET soup == Decompose(Soup(doc))
             s2 == structured_data_stage(soup.scripts)
             s3 == data_layer_stage(doc)
             s4 == window_product_stage(doc)
         IN  IF s2 # None THEN s2
             ELSE IF s3 # None THEN s3
             ELSE IF s4 # None THEN s4
             ELSE selector_stage(soup)

slug_prefixes ==
    <<<<"g", "l", "a", "m", "i", "r", "a", "-">>, <<"b", "a", "g", "u", "e", "-">>, <<"r", "i", "n", "g", "-">>, <<"a", "n", "n", "e", "a", "u", "-">>, <<"v", "e", "r", "l", "o", "b", "u", "n", "g", "s", "r", "i", "n", "g", "-">>, <<"e", "h", "e", "r", "i", "n", "g", "e", "-">>,
      <<"p", "i", "e", "r", "s", "c", "i", "o", "n", "k", "i", "-">>, <<"p", "r", "s", "t", "e", "n", "-">>, <<"c", "o", "l", "l", "i", "e", "r", "-">>, <<"p", "e", "n", "d", "a", "n", "t", "-">>, <<"n", "e", "c", "k", "l", "a", "c", "e", "-">>, <<"e", "a", "r", "r", "i", "n", "g", "-">>>>

\* for p in prefixes: if slug.startswith(p): slug = slug[len(p):]; break
strip_slug_prefix(slug) ==
    LET hits == {i \in 1..Len(slug_prefixes) : startswith(slug, slug_prefixes[i])}
    IN  IF hits = {} THEN slug
        ELSE SubSeq(slug, Len(slug_prefixes[MinOf(hits)]) + 1, Len(slug))

\* w.capitalize() if w.isalpha() else w, for every word
capitalize_words(words) ==
    SubSeq([i \in 1..Len(words) |-> IF isalpha(words[i]) THEN capitalize(words[i]) ELSE words[i]],
           1, Len(words))

\* a variant of derive_name_from_slug without the test for ".html" in the path
derive_name_from_slug_any_path(url) ==
    LET path == url.path
    IN  IF path = <<>> THEN None
        ELSE LET slug  == strip_slug_prefix(split_first(rsplit_last(path, <<"/">>), <<".", "h", "t", "m", "l">>))
                 words == split_words(slug)
             IN  IF words = <<>> THEN None
                 ELSE LET name == join_space(capitalize_words(words))
                      IN  IF 2 < Len(name) /\ Len(name) < 200 THEN Some(name) ELSE None

derive_name_from_slug(url) ==
    LET path == url.path
    IN  IF path = <<>> \/ ~contains(path, <<".", "h", "t", "m", "l">>) THEN None
        ELSE LET slug  == strip_slug_prefix(split_first(rsplit_last(path, <<"/">>), <<".", "h", "t", "m", "l">>))
                 words == split_words(slug)
             IN  IF words = <<>> THEN None
                 ELSE LET name == join_space(capitalize_words(words))
                      IN  IF 2 < Len(name) /\ Len(name) < 200 THEN Some(name) ELSE None

(***************************************************************************)
(* Inputs: the URLs a record may carry, the hrefs a canonical link may     *)
(* hold, and the pages a server may answer with.                           *)
(***************************************************************************)
MaxShortLen == 4

LenSlack == 1

\* the lengths around the acceptance limits of the code (3, 200 and 300)
ShortLens == 2..MaxShortLen

LongLens == ((200 - LenSlack)..(200 + LenSlack)) \cup ((300 - LenSlack)..(300 + LenSlack))

HTTPS == <<"h", "t", "t", "p", "s">>

SHOP_HOST == <<"s", "h", "o", "p", ".", "e", "x", "a", "m", "p", "l", "e", ".", "d", "e">>

GLAMIRA_HOST == <<"w", "w", "w", ".", "g", "l", "a", "m", "i", "r", "a", ".", "d", "e">>

\* https://shop.example.de/glamira-ring-abc.html
URL_RING == Url(HTTPS, SHOP_HOST, <<"/", "g", "l", "a", "m", "i", "r", "a", "-", "r", "i", "n", "g", "-", "a", "b", "c", ".", "h", "t", "m", "l">>, <<>>, <<>>)

\* https://www.glamira.de/de/ring-abc_2.html?sku=1#top
URL_GLAMIRA == Url(HTTPS, GLAMIRA_HOST, <<"/", "d", "e", "/", "r", "i", "n", "g", "-", "a", "b", "c", "_", "2", ".", "h", "t", "m", "l">>, <<"s", "k", "u", "=", "1">>, <<"t", "o", "p">>)

\* https://shop.example.de/product/42
URL_NO_HTML_SUFFIX == Url(HTTPS, SHOP_HOST, <<"/", "p", "r", "o", "d", "u", "c", "t", "/", "4", "2">>, <<>>, <<>>)

\* https://shop.example.de/xx...x.html with a slug of n characters
UrlWithSlug(n) == Url(HTTPS, SHOP_HOST, <<"/">> \o Rep("x", n) \o <<".", "h", "t", "m", "l">>, <<>>, <<>>)

\* https://shop.example.de/ring-xyz.html
URL_CANONICAL == Url(HTTPS, SHOP_HOST, <<"/", "r", "i", "n", "g", "-", "x", "y", "z", ".", "h", "t", "m", "l">>, <<>>, <<>>)

\* https://shop.example.de/de/gold-ring.htm
URL_HTM == Url(HTTPS, SHOP_HOST, <<"/", "d", "e", "/", "g", "o", "l", "d", "-", "r", "i", "n", "g", ".", "h", "t", "m">>, <<>>, <<>>)

\* /ring-xyz.html, a relative reference
URL_RELATIVE == Url(<<>>, <<>>, <<"/", "r", "i", "n", "g", "-", "x", "y", "z", ".", "h", "t", "m", "l">>, <<>>, <<>>)

\* https://shop.example.de/glamira-ring-abc.html;v=1
URL_PARAMS == [URL_RING EXCEPT !.params = <<"v", "=", "1">>]

RecordUrls ==
    {URL_RING, URL_GLAMIRA, URL_NO_HTML_SUFFIX, URL_PARAMS}
    \cup {UrlWithSlug(n) : n \in ShortLens \cup ((200 - LenSlack)..(200 + LenSlack))}

CanonicalHrefs == {URL_CANONICAL, URL_RING, URL_GLAMIRA, URL_RELATIVE, URL_HTM, EmptyHref}

AllUrls ==
    RecordUrls \cup (CanonicalHrefs \ {EmptyHref}) \cup {StripQueryFragment(u) : u \in RecordUrls}

Title(text) == Element("title", "", "", "", "", text, <<>>)

H1(text) == Element("h1", "", "", "", "", text, <<>>)

PageTitleBase(text) == Element("span", "base", "", "h1", "page-title", text, <<>>)

OgTitle(content) == Element("meta", "", "property=og:title", "", "", <<>>, content)

TitleOnly(text) == Page(<<>>, <<Title(text)>>, None, <<>>, None)

TitleTexts ==
    { <<"R", "i", "n", "g", " ", "A", "B", "C", " ", "|", " ", "E", "x", "a", "m", "p", "l", "e", " ", "S", "h", "o", "p">>, <<"A", "b", " ", "|", " ", "E", "x", "a", "m", "p", "l", "e", " ", "S", "h", "o", "p">>, <<"B", "u", "y", " ", "R", "i", "n", "g", " ", "-", " ", "E", "x", "a", "m", "p", "l", "e">>,
      <<"H", "o", "m", "e">>, <<" ", " ", "G", "o", "l", "d">> \o <<"\n">> \o <<" ", "R", "i", "n", "g", " ", " ">>, <<>> }
    \cup {Rep("a", n) : n \in ShortLens \cup LongLens}

ProductLd(name) == [type |-> <<"P", "r", "o", "d", "u", "c", "t">>, name |-> Some(name)]

CART_BODY == <<"<", "a", " ", "h", "r", "e", "f", "=", "\"", "/", "c", "h", "e", "c", "k", "o", "u", "t", "/", "c", "a", "r", "t", "/", "\"", ">">>

ROBOTS_CART_BODY == <<"<", "m", "e", "t", "a", " ", "n", "a", "m", "e", "=", "\"", "r", "o", "b", "o", "t", "s", "\"", " ", "c", "o", "n", "t", "e", "n", "t", "=", "\"", "n", "o", "i", "n", "d", "e", "x", ",", "n", "o", "f", "o", "l", "l", "o", "w", "\"", ">", " ", "C", "a", "r", "t">>

PAGETYPE_CART_BODY == <<"p", "a", "g", "e", "T", "y", "p", "e", ":", " ", "\"", "c", "a", "r", "t", "\"">>

BOT_BODY == <<"A", "t", "t", "e", "n", "t", "i", "o", "n", " ", "R", "e", "q", "u", "i", "r", "e", "d", "!", " ", "|", " ", "C", "l", "o", "u", "d", "f", "l", "a", "r", "e">>

PLAIN_BODY == <<"<", "h", "t", "m", "l", ">", "<", "/", "h", "t", "m", "l", ">">>

\* pages that carry a name candidate in one or more places
ProductPages ==
    {TitleOnly(t) : t \in TitleTexts}
    \cup { Page(PLAIN_BODY, <<>>, None, <<>>, None),
           Page(<<>>, <<H1(<<"D", "i", "a", "m", "o", "n", "d", " ", "R", "i", "n", "g">>), Title(<<"H", "o", "m", "e">>)>>, None, <<>>, None),
           Page(<<>>, <<Title(<<"R", "i", "n", "g", " ", "A", "B", "C", " ", "|", " ", "E", "x", "a", "m", "p", "l", "e", " ", "S", "h", "o", "p">>), PageTitleBase(<<"G", "l", "a", "m", "i", "r", "a", " ", "R", "i", "n", "g", " ", "A", "b", "c">>),
                        OgTitle(<<"O", "g", " ", "R", "i", "n", "g">>)>>, Link(URL_CANONICAL), <<>>, None),
           Page(<<>>, <<Title(<<"R", "i", "n", "g", " ", "A", "B", "C", " ", "|", " ", "E", "x", "a", "m", "p", "l", "e", " ", "S", "h", "o", "p">>)>>, None,
                <<ProductLd(<<"G", "o", "l", "d", " ", "R", "i", "n", "g", " ", "|", " ", "G", "l", "a", "m", "i", "r", "a">>)>>, None),
           Page(<<>>, <<Title(<<"R", "i", "n", "g", " ", "A", "B", "C", " ", "|", " ", "E", "x", "a", "m", "p", "l", "e", " ", "S", "h", "o", "p">>)>>, None, <<>>, Some(<<" ", "R", "1", " ">>)),
           Page(<<>>, <<Title(<<"R", "i", "n", "g", " ", "A", "B", "C", " ", "|", " ", "E", "x", "a", "m", "p", "l", "e", " ", "S", "h", "o", "p">>)>>, None, <<>>, Some(<<"R", "1", "2">>)),
           Page(PAGETYPE_CART_BODY, <<Title(<<"R", "i", "n", "g", " ", "A", "B", "C", " ", "|", " ", "E", "x", "a", "m", "p", "l", "e", " ", "S", "h", "o", "p">>)>>, None, <<>>, None) }

\* bot-challenge pages
BotPages ==
    { Page(BOT_BODY, <<Title(<<"R", "i", "n", "g", " ", "A", "B", "C", " ", "|", " ", "E", "x", "a", "m", "p", "l", "e", " ", "S", "h", "o", "p">>)>>, None, <<>>, None),
      Page(<<>>, <<Title(<<"C", "a", "p", "t", "c", "h", "a", " ", "R", "i", "n", "g">>)>>, None, <<>>, None),
      Page(BOT_BODY \o CART_BODY, <<Title(<<"R", "i", "n", "g", " ", "A", "B", "C", " ", "|", " ", "E", "x", "a", "m", "p", "l", "e", " ", "S", "h", "o", "p">>)>>, None, <<>>, None) }

\* cart and redirect artifacts, with every kind of canonical link
CartPages ==
    {Page(CART_BODY, <<Title(<<"R", "i", "n", "g", " ", "A", "B", "C", " ", "|", " ", "E", "x", "a", "m", "p", "l", "e", " ", "S", "h", "o", "p">>)>>, c, <<>>, None) :
        c \in {None} \cup {Link(h) : h \in CanonicalHrefs}}
    \cup { Page(<<>>, <<Title(<<"W", "a", "r", "e", "n", "k", "o", "r", "b">>)>>, None, <<>>, None),
           Page(ROBOTS_CART_BODY, <<>>, None, <<>>, None) }

\* HTTP 200 with an empty body
EMPTY_PAGE == Page(<<>>, <<>>, None, <<>>, None)

Pages == ProductPages \cup BotPages \cup CartPages \cup {EMPTY_PAGE}

\* the functions of a page or a URL that the orchestration uses, tabulated once
NonProductOf == <<>> @@ [p \in Pages |-> is_non_product_page(p)]

CanonicalOf == <<>> @@ [p \in Pages |-> extract_canonical_url(p)]

ExtractOf == <<>> @@ [p \in Pages |-> extract_product_name(p)]

SlugNameOf == <<>> @@ [u \in AllUrls |-> derive_name_from_slug(u)]

TruthyPages == {p \in Pages : Truthy(p)}

(***************************************************************************)
(* Program constants and state                                             *)
(***************************************************************************)
MAX_RETRIES == 3

DEBUG_HTML_MAX == 10

VARIABLES
    cf_scraper,   \* whether the module got a cloudscraper client (_cf_scraper is not None)
    debug_saved,  \* _DEBUG_HTML_SAVED
    pc,           \* where process_single_url stands: idle, fetch, recover, done, raised
    record,       \* its record (re-issued with the recovered URL on adoption)
    html,         \* its html
    fetches,      \* the http_get calls it has made for this record
    returned,     \* the dicts it has returned for this record
    http,         \* the activation of http_get
    call          \* the activation of a function that is run on its own

vars == <<cf_scraper, debug_saved, pc, record, html, fetches, returned, http, call>>

\* no function is run on its own
IdleCall == [fn |-> "none"]

(***************************************************************************)
(* Fetcher: http_get.  One action per blocking call (a request of either   *)
(* client, the backoff sleep); what the code does between two of them is   *)
(* part of the action that precedes it.                                    *)
(***************************************************************************)
STATUS_CODES == {200, 404, 403, 429, 503, 500}

EXCEPTIONS == {"Timeout", "ConnectionError", "RequestException", "Exception"}

Response(code, body) == [code |-> code, body |-> body]

Raised(exc) == [exc |-> exc]

IsResponse(o) == "code" \in DOMAIN o

\* what a client may do with a request for url: answer some status (a body with
\* 200) or raise; a URL without scheme is refused before anything is sent
Outcomes(url) ==
    IF url.scheme = <<>> THEN {Raised("RequestException")}
    ELSE {Response(200, p) : p \in Pages}
         \cup {Response(c, None) : c \in STATUS_CODES \ {200}}
         \cup {Raised(e) : e \in EXCEPTIONS}

IdleHttp ==
    [pc |-> "idle", url |-> None, attempt |-> 0, status |-> 0, n_cf |-> 0,
     n_sleep |-> 0, cf_in_attempt |-> 0, all_transient |-> TRUE, result |-> None]

\* entry of http_get: the first iteration of "for attempt in range(1, MAX_RETRIES + 1)".
\* status is the status code the current attempt branched on (0: none yet); n_cf and
\* n_sleep count the requests of the hardened client and the backoff sleeps of the call;
\* all_transient records that every attempt so far ended in a timeout, a connection
\* error or a status outside 200, 404, 403, 429, 503
HttpCall(url) == [IdleHttp EXCEPT !.pc = "request", !.url = url, !.attempt = 1]

HttpReturn(h, result) == [h EXCEPT !.pc = "returned", !.result = result]

\* a variant of EndOfAttempt that gives up after the first failed attempt
EndOfAttempt_no_retry(h, transient) ==
    HttpReturn([h EXCEPT !.all_transient = h.all_transient /\ transient], None)

\* the end of an iteration: sleep if attempts remain, else leave the loop and return None
EndOfAttempt(h, transient) ==
    LET g == [h EXCEPT !.all_transient = h.all_transient /\ transient]
    IN  IF g.attempt < MAX_RETRIES THEN [g EXCEPT !.pc = "sleep"] ELSE HttpReturn(g, None)

\* a variant of CAUGHT without the final "except Exception" clause
CAUGHT_without_catch_all == {"Timeout", "ConnectionError", "RequestException"}

\* the except clauses of the attempt, in order
CAUGHT == {"Timeout", "ConnectionError", "RequestException", "Exception"}

HandleException(h, exc) ==
    IF exc \in CAUGHT
    THEN EndOfAttempt(h, exc \in {"Timeout", "ConnectionError"})
    ELSE [h EXCEPT !.pc = "raised"]

\* a variant of HandleStatus without the 404 branch: 404 is handled like any other status
HandleStatus_404_retried(h, resp, cf) ==
    LET g == [h EXCEPT !.status = resp.code]
        n == [g EXCEPT !.all_transient = FALSE]
    IN  IF resp.code = 200 THEN HttpReturn(n, resp.body)
        ELSE IF resp.code = 403
             THEN (IF cf THEN [n EXCEPT !.pc = "fallback_403"] ELSE HttpReturn(n, None))
        ELSE IF resp.code \in {429, 503}
             THEN (IF cf THEN [n EXCEPT !.pc = "fallback_retry"] ELSE EndOfAttempt(n, FALSE))
        ELSE EndOfAttempt(g, TRUE)

\* a variant of HandleStatus that gives up on 429 and 503 as the code does on 403
HandleStatus_429_gives_up(h, resp, cf) ==
    LET g == [h EXCEPT !.status = resp.code]
        n == [g EXCEPT !.all_transient = FALSE]
    IN  IF resp.code = 200 THEN HttpReturn(n, resp.body)
        ELSE IF resp.code = 404 THEN HttpReturn(n, None)
        ELSE IF resp.code \in {403, 429, 503}
             THEN (IF cf THEN [n EXCEPT !.pc = "fallback_403"] ELSE HttpReturn(n, None))
        ELSE EndOfAttempt(g, TRUE)

\* the branch on resp.status_code
HandleStatus(h, resp, cf) ==
    LET g == [h EXCEPT !.status = resp.code]
        n == [g EXCEPT !.all_transient = FALSE]
    IN  IF resp.code = 200 THEN HttpReturn(n, resp.body)
        ELSE IF resp.code = 404 THEN HttpReturn(n, None)
        ELSE IF resp.code = 403
             THEN (IF cf THEN [n EXCEPT !.pc = "fallback_403"] ELSE HttpReturn(n, None))
        ELSE IF resp.code \in {429, 503}
             THEN (IF cf THEN [n EXCEPT !.pc = "fallback_retry"] ELSE EndOfAttempt(n, FALSE))
        ELSE EndOfAttempt(g, TRUE)

IsHardHost(url) == contains(url.host, <<"g", "l", "a", "m", "i", "r", "a", ".">>)

CountHardened(h) == [h EXCEPT !.n_cf = h.n_cf + 1, !.cf_in_attempt = h.cf_in_attempt + 1]

\* the hardened client first, for a hard-to-scrape host; when it raises, resp stays None
HttpHardenedFirst ==
    /\ http.pc = "request"
    /\ cf_scraper /\ IsHardHost(http.url)
    /\ \E o \in Outcomes(http.url) :
          http' = IF IsResponse(o)
                  THEN HandleStatus(CountHardened(http), o, cf_scraper)
                  ELSE [CountHardened(http) EXCEPT !.pc = "standard"]
    /\ UNCHANGED <<cf_scraper, debug_saved, pc, record, html, fetches, returned, call>>

\* requests.get, when resp is None
HttpStandardGet ==
    /\ \/ http.pc = "standard"
       \/ http.pc = "request" /\ ~(cf_scraper /\ IsHardHost(http.url))
    /\ \E o \in Outcomes(http.url) :
          http' = IF IsResponse(o) THEN HandleStatus(http, o, cf_scraper)
                  ELSE HandleException(http, o.exc)
    /\ UNCHANGED <<cf_scraper, debug_saved, pc, record, html, fetches, returned, call>>

\* the hardened client after 403: its body on 200, else return None
HttpFallback403 ==
    /\ http.pc = "fallback_403"
    /\ \E o \in Outcomes(http.url) :
          http' = IF IsResponse(o) /\ o.code = 200
                  THEN HttpReturn(CountHardened(http), o.body)
                  ELSE HttpReturn(CountHardened(http), None)
    /\ UNCHANGED <<cf_scraper, debug_saved, pc, record, html, fetches, returned, call>>

\* a variant of HttpFallbackRetry that asks the hardened client again until it answers 200
HttpFallbackRetry_again ==
    /\ http.pc = "fallback_retry"
    /\ \E o \in Outcomes(http.url) :
          http' = IF IsResponse(o) /\ o.code = 200
                  THEN HttpReturn(CountHardened(http), o.body)
                  ELSE CountHardened(http)
    /\ UNCHANGED <<cf_scraper, debug_saved, pc, record, html, fetches, returned, call>>

\* the hardened client after 429 or 503: its body on 200, else on to the end of the attempt
HttpFallbackRetry ==
    /\ http.pc = "fallback_retry"
    /\ \E o \in Outcomes(http.url) :
          http' = IF IsResponse(o) /\ o.code = 200
                  THEN HttpReturn(CountHardened(http), o.body)
                  ELSE EndOfAttempt(CountHardened(http), FALSE)
    /\ UNCHANGED <<cf_scraper, debug_saved, pc, record, html, fetches, returned, call>>

\* time.sleep(RETRY_BACKOFF_BASE_SECONDS * 2 ** (attempt - 1)), then the next iteration
HttpBackoff ==
    /\ http.pc = "sleep"
    /\ http' = [http EXCEPT !.pc = "request", !.attempt = http.attempt + 1, !.status = 0,
                            !.n_sleep = http.n_sleep + 1, !.cf_in_attempt = 0]
    /\ UNCHANGED <<cf_scraper, debug_saved, pc, record, html, fetches, returned, call>>

(***************************************************************************)
(* UrlRecordProcessor: process_single_url.  It is suspended only inside    *)
(* http_get, so it has one action per stretch between two calls.  The      *)
(* fetched_at field of the returned dict (the clock) is left out.          *)
(***************************************************************************)
UrlRecord(product_id, url, source_collection) ==
    [product_id |-> product_id, url |-> url, source_collection |-> source_collection]

Records == {UrlRecord("42", u, "summary") : u \in RecordUrls}

\* a variant of OutcomeRecord that loses the name
OutcomeRecord_without_name(rec, product_name, status) ==
    [product_id |-> rec.product_id, url |-> rec.url, source_collection |-> rec.source_collection,
     product_name |-> None, status |-> status]

OutcomeRecord(rec, product_name, status) ==
    [product_id |-> rec.product_id, url |-> rec.url, source_collection |-> rec.source_collection,
     product_name |-> product_name, status |-> status]

\* what "if product_name:" tests
NameTruthy(name) == name # None /\ name.val # <<>>

\* a variant of save_debug_html without the try/except around the write
save_debug_html_unguarded(saved, write_ok) ==
    IF saved < DEBUG_HTML_MAX
    THEN (IF write_ok THEN [saved |-> saved + 1, raised |-> FALSE]
                      ELSE [saved |-> saved, raised |-> TRUE])
    ELSE [saved |-> saved, raised |-> FALSE]

\* the guarded dump of the page: the counter moves only when the file was written,
\* and a failing write is swallowed
save_debug_html(saved, write_ok) ==
    IF saved < DEBUG_HTML_MAX /\ write_ok
    THEN [saved |-> saved + 1, raised |-> FALSE]
    ELSE [saved |-> saved, raised |-> FALSE]

\* a variant of no_html_outcome that falls back to the slug of the URL
no_html_outcome_from_slug(rec) ==
    IF NameTruthy(SlugNameOf[rec.url])
    THEN OutcomeRecord(rec, SlugNameOf[rec.url], "slug_heuristic")
    ELSE OutcomeRecord(rec, None, "no_html")

\* a variant of no_html_outcome that leaves status as it was initialised
no_html_outcome_keeps_initial_status(rec) == OutcomeRecord(rec, None, "failed")

\* the else branch of "if html:" and the return
no_html_outcome(rec) == OutcomeRecord(rec, None, "no_html")

\* a variant of recovery_url that falls back to the stripped URL when the canonical
\* URL is the record's own
recovery_url_falls_back(rec, h) ==
    IF CanonicalOf[h] # None /\ CanonicalOf[h] # rec.url THEN CanonicalOf[h]
    ELSE StripQueryFragment(rec.url)

\* new_url: the canonical URL, else the record's URL without query and fragment
recovery_url(rec, h) ==
    IF CanonicalOf[h] # None THEN CanonicalOf[h] ELSE StripQueryFragment(rec.url)

\* from the second is_non_product_page(html) test to the return
finish(rec, h, saved, write_ok) ==
    IF NonProductOf[h]
    THEN LET d == save_debug_html(saved, write_ok)
         IN  [outcome |-> OutcomeRecord(rec, None, "non_product_page"),
              saved |-> d.saved, raised |-> d.raised]
    ELSE LET product_name == ExtractOf[h]
         IN  IF NameTruthy(product_name)
             THEN [outcome |-> OutcomeRecord(rec, product_name, "success"),
                   saved |-> saved, raised |-> FALSE]
             ELSE LET slug_name == SlugNameOf[rec.url]
                  IN  IF NameTruthy(slug_name)
                      THEN [outcome |-> OutcomeRecord(rec, slug_name, "slug_heuristic"),
                            saved |-> saved, raised |-> FALSE]
                      ELSE LET d == save_debug_html(saved, write_ok)
                           IN  [outcome |-> OutcomeRecord(rec, product_name, "no_name_found"),
                                saved |-> d.saved, raised |-> d.raised]

Finish(rec, h, write_ok) ==
    LET f == finish(rec, h, debug_saved, write_ok)
    IN  /\ pc' = IF f.raised THEN "raised" ELSE "done"
        /\ returned' = IF f.raised THEN returned ELSE Append(returned, f.outcome)
        /\ debug_saved' = f.saved
        /\ record' = rec
        /\ html' = h
        /\ http' = IdleHttp

\* a worker picks up a record and calls http_get(record.url)
ProcessStart ==
    /\ pc \in {"idle", "done"}
    /\ \E r \in Records :
          /\ record' = r
          /\ http' = HttpCall(r.url)
    /\ pc' = "fetch"
    /\ html' = None
    /\ fetches' = 1
    /\ returned' = <<>>
    /\ UNCHANGED <<cf_scraper, debug_saved, call>>

\* from the return of the first http_get to the recovery fetch or to the return
AfterFetch ==
    /\ pc = "fetch"
    /\ http.pc \in {"returned", "raised"}
    /\ IF http.pc = "raised"
       THEN /\ pc' = "raised"
            /\ UNCHANGED <<debug_saved, record, html, fetches, returned, http>>
       ELSE IF ~Truthy(http.result)
       THEN /\ pc' = "done"
            /\ returned' = Append(returned, no_html_outcome(record))
            /\ html' = http.result
            /\ http' = IdleHttp
            /\ UNCHANGED <<debug_saved, record, fetches>>
       ELSE LET h == http.result
                new_url == recovery_url(record, h)
            IN  IF NonProductOf[h] /\ new_url # record.url
                THEN /\ pc' = "recover"
                     /\ html' = h
                     /\ http' = HttpCall(new_url)
                     /\ fetches' = fetches + 1
                     /\ UNCHANGED <<debug_saved, record, returned>>
                ELSE /\ \E write_ok \in BOOLEAN : Finish(record, h, write_ok)
                     /\ UNCHANGED fetches
    /\ UNCHANGED <<cf_scraper, call>>

\* a variant of AfterRecovery that adopts the recovered page but keeps the record as it was
AfterRecovery_keeps_url ==
    /\ pc = "recover"
    /\ http.pc \in {"returned", "raised"}
    /\ IF http.pc = "raised"
       THEN /\ pc' = "raised"
            /\ UNCHANGED <<debug_saved, record, html, returned, http>>
       ELSE LET recovered_html == http.result
                adopt == Truthy(recovered_html) /\ ~NonProductOf[recovered_html]
            IN  \E write_ok \in BOOLEAN :
                   Finish(record, IF adopt THEN recovered_html ELSE html, write_ok)
    /\ UNCHANGED <<cf_scraper, fetches, call>>

\* a variant of AfterRecovery that adopts whatever page the recovery fetch returned
AfterRecovery_adopts_any ==
    /\ pc = "recover"
    /\ http.pc \in {"returned", "raised"}
    /\ IF http.pc = "raised"
       THEN /\ pc' = "raised"
            /\ UNCHANGED <<debug_saved, record, html, returned, http>>
       ELSE LET recovered_html == http.result
                adopt == Truthy(recovered_html)
            IN  \E write_ok \in BOOLEAN :
                   Finish(IF adopt
                          THEN UrlRecord(record.product_id, http.url, record.source_collection)
                          ELSE record,
                          IF adopt THEN recovered_html ELSE html,
                          write_ok)
    /\ UNCHANGED <<cf_scraper, fetches, call>>

\* a variant of AfterRecovery that starts another recovery from a recovered page that
\* is a non-product page again
AfterRecovery_recovers_again ==
    /\ pc = "recover"
    /\ http.pc \in {"returned", "raised"}
    /\ IF http.pc = "raised"
       THEN /\ pc' = "raised"
            /\ UNCHANGED <<debug_saved, record, html, fetches, returned, http>>
       ELSE LET recovered_html == http.result
                adopt == Truthy(recovered_html) /\ ~NonProductOf[recovered_html]
            IN  IF Truthy(recovered_html) /\ ~adopt
                   /\ recovery_url(record, recovered_html) # http.url
                THEN /\ http' = HttpCall(recovery_url(record, recovered_html))
                     /\ html' = recovered_html
                     /\ fetches' = fetches + 1
                     /\ UNCHANGED <<debug_saved, pc, record, returned>>
                ELSE /\ \E write_ok \in BOOLEAN :
                          Finish(IF adopt
                                 THEN UrlRecord(record.product_id, http.url, record.source_collection)
                                 ELSE record,
                                 IF adopt THEN recovered_html ELSE html,
                                 write_ok)
                     /\ UNCHANGED fetches
    /\ UNCHANGED <<cf_scraper, call>>

\* from the return of the recovery http_get to the return
AfterRecovery ==
    /\ pc = "recover"
    /\ http.pc \in {"returned", "raised"}
    /\ IF http.pc = "raised"
       THEN /\ pc' = "raised"
            /\ UNCHANGED <<debug_saved, record, html, returned, http>>
       ELSE LET recovered_html == http.result
                adopt == Truthy(recovered_html) /\ ~NonProductOf[recovered_html]
            IN  \E write_ok \in BOOLEAN :
                   Finish(IF adopt
                          THEN UrlRecord(record.product_id, http.url, record.source_collection)
                          ELSE record,
                          IF adopt THEN recovered_html ELSE html,
                          write_ok)
    /\ UNCHANGED <<cf_scraper, fetches, call>>

Init ==
    /\ cf_scraper \in BOOLEAN
    /\ debug_saved = 0
    /\ pc = "idle"
    /\ record = None
    /\ html = None
    /\ fetches = 0
    /\ returned = <<>>
    /\ http = IdleHttp
    /\ call = IdleCall

Next ==
    \/ ProcessStart
    \/ HttpHardenedFirst
    \/ HttpStandardGet
    \/ HttpFallback403
    \/ HttpFallbackRetry
    \/ HttpBackoff
    \/ AfterFetch
    \/ AfterRecovery

Spec == Init /\ [][Next]_vars


(***************************************************************************)
(* Properties of process_single_url and http_get                           *)
(***************************************************************************)
NAMED_STATUSES == {"success", "slug_heuristic"}

UNNAMED_STATUSES == {"non_product_page", "no_name_found", "no_html", "failed"}

STATUSES == NAMED_STATUSES \cup UNNAMED_STATUSES

Returned == {returned[i] : i \in DOMAIN returned}

\* C1: every OutcomeRecord returned by process_single_url carries a non-empty
\* product_name if and only if its status is success or slug_heuristic; with any
\* other status its product_name is absent (None)
C1_NameIffNamedStatus ==
    \A o \in Returned :
        /\ (o.status \in NAMED_STATUSES) <=> NameTruthy(o.product_name)
        /\ (o.status \in UNNAMED_STATUSES) => (o.product_name = None)

\* a name taken from the slug, after a page that gave none
C1_Witness ==
    \E o \in Returned :
        /\ o.status = "slug_heuristic"
        /\ NameTruthy(o.product_name)
        /\ html # None /\ ExtractOf[html] = None

\* C2: every product_name of an outcome with status success or slug_heuristic is,
\* after cleaning, strictly longer than 3 and strictly shorter than 200 characters,
\* whichever stage or the slug fallback produced it
C2_NameLengthBound ==
    \A o \in Returned :
        (o.status \in NAMED_STATUSES) =>
            (3 < Len(o.product_name.val) /\ Len(o.product_name.val) < 200)

\* C3: http_get never raises, whatever the clients answer or raise in any attempt:
\* its activation ends by returning
C3_HttpGetNeverRaises == http.pc # "raised"

\* the last attempt's request raised, and the call returned None
C3_Witness ==
    /\ http.pc = "returned"
    /\ http.status = 0
    /\ http.attempt = MAX_RETRIES
    /\ http.result = None

\* C4: one http_get call makes at most MAX_RETRIES attempts; when every attempt ends
\* in a timeout, a connection error or a status other than 200, 404, 403, 429, 503,
\* it makes exactly MAX_RETRIES attempts (sleeping between them) and returns None
C4_AttemptCeiling ==
    /\ http.attempt <= MAX_RETRIES
    /\ (http.pc = "returned" /\ http.all_transient) =>
           (/\ http.attempt = MAX_RETRIES
            /\ http.n_sleep = MAX_RETRIES - 1
            /\ http.result = None)

\* three attempts, the last one answered 500
C4_Witness ==
    /\ http.pc = "returned"
    /\ http.all_transient
    /\ http.attempt = MAX_RETRIES
    /\ http.status = 500

\* C5: once an attempt of http_get has received 404 the call has returned None: the
\* activation is at its return (where no request, no sleep and no further attempt
\* can follow) in every state that carries the status 404
C5_NotFoundReturnsAtOnce ==
    (http.status = 404) => (http.pc = "returned" /\ http.result = None)

\* 404 at the second attempt: returned with one sleep behind it and no third attempt
C5_Witness ==
    /\ http.status = 404
    /\ http.pc = "returned"
    /\ http.attempt = 2
    /\ http.n_sleep = 1

\* C6: after 403 and a hardened-client fallback that did not give a body (or no
\* hardened client), http_get goes on with the retry loop: it returns None only
\* once MAX_RETRIES attempts are made
C6_ForbiddenFallsThroughToRetry ==
    (http.pc = "returned" /\ http.status = 403 /\ http.result = None) =>
        (http.attempt = MAX_RETRIES)

\* C7: after 429 or 503 http_get returns a body only from the hardened client, and
\* otherwise (no hardened client, or one that raised or did not answer 200) goes on
\* with the retry loop and returns None only once MAX_RETRIES attempts are made
C7_ThrottledRetriesOrHardenedBody ==
    (http.status \in {429, 503}) =>
        /\ http.pc \in {"fallback_retry", "sleep", "returned"}
        /\ (http.pc = "fallback_retry") => cf_scraper
        /\ (http.pc = "returned" /\ http.result = None) => (http.attempt = MAX_RETRIES)
        /\ (http.pc = "returned" /\ http.result # None) =>
               (cf_scraper /\ http.n_cf >= 1 /\ http.result \in Pages)

\* 429 at the second attempt, answered by the hardened client's body
C7_Witness ==
    /\ http.status = 429
    /\ http.pc = "returned"
    /\ http.result # None
    /\ http.attempt = 2

\* C8, as stated: within one http_get call the hardened client serves at most one request
C8_OneHardenedRequestPerCall == http.n_cf <= 1

\* C8, amended: in one attempt the hardened client serves at most two requests - at
\* most one as the first request (only for a hard-to-scrape host) and at most one
\* as the fallback after 403, 429 or 503 - so at most 2 * attempt in the call so
\* far; without a hardened client it serves none
C8_HardenedRequestsPerAttempt ==
    /\ http.cf_in_attempt <= 2
    /\ http.n_cf <= 2 * http.attempt
    /\ (~cf_scraper) => (http.n_cf = 0)
    /\ (http.pc # "idle" /\ ~IsHardHost(http.url)) =>
           (http.cf_in_attempt <= 1 /\ http.n_cf <= http.attempt)

\* every attempt of a call used the hardened client twice
C8_Witness == http.n_cf = 2 * MAX_RETRIES

\* C9: when http_get(record.url) returns None, process_single_url returns at once
\* the no_html outcome with no name and the record's own URL: no second fetch,
\* no debug dump
C9_Step ==
    (pc = "fetch" /\ http.pc = "returned" /\ http.result = None) =>
        /\ pc' = "done"
        /\ returned' = <<[product_id |-> record.product_id, url |-> record.url,
                          source_collection |-> record.source_collection,
                          product_name |-> None, status |-> "no_html"]>>
        /\ record' = record
        /\ fetches' = fetches
        /\ debug_saved' = debug_saved
        /\ http'.pc = "idle"

C9_AbsentFetchGivesNoHtml == [][C9_Step]_vars

\* returned with no_html after the one fetch gave None
C9_Witness ==
    /\ pc = "done"
    /\ html = None
    /\ fetches = 1
    /\ \E o \in Returned : o.status = "no_html" /\ o.url = record.url

pipeline_vars == <<cf_scraper, debug_saved, pc, record, html, fetches, returned, http>>

\* a page whose body holds a dataLayer push of the object {"product": product}
DataLayerPage(body, els, product) ==
    [body |-> body, els |-> els, canonical |-> None, ld |-> <<>>, winsku |-> None,
     dl |-> product]

DATALAYER_BODY == <<"<", "s", "c", "r", "i", "p", "t", ">", "d", "a", "t", "a", "L", "a", "y", "e", "r", ".", "p", "u", "s", "h", "(", "{", "\"", "p", "r", "o", "d", "u", "c", "t", "\"", ":", " ", "{", "\"", "n", "a", "m", "e", "\"", ":", " ", "\"", "G", "o", "l", "d", " ", "R", "i", "n", "g", "\"", "}", "}", ")", ";", "<", "/", "s", "c", "r", "i", "p", "t", ">">>

ExtractBodies ==
    { <<>>, BOT_BODY, <<"A", "c", "c", "e", "s", "s", " ", "D", "e", "n", "i", "e", "d">>, <<"P", "l", "e", "a", "s", "e", " ", "s", "o", "l", "v", "e", " ", "t", "h", "e", " ", "C", "A", "P", "T", "C", "H", "A">>, <<"p", "r", "o", "t", "e", "c", "t", "e", "d", " ", "b", "y", " ", "c", "l", "o", "u", "d", "f", "l", "a", "r", "e">> }

ExtractEls ==
    { <<>>,
      <<Title(<<"R", "i", "n", "g", " ", "A", "B", "C", " ", "|", " ", "E", "x", "a", "m", "p", "l", "e", " ", "S", "h", "o", "p">>)>>,
      <<H1(<<"D", "i", "a", "m", "o", "n", "d", " ", "R", "i", "n", "g">>), Title(<<"H", "o", "m", "e">>)>>,
      <<Title(<<"R", "i", "n", "g", " ", "A", "B", "C", " ", "|", " ", "E", "x", "a", "m", "p", "l", "e", " ", "S", "h", "o", "p">>), H1(<<"D", "i", "a", "m", "o", "n", "d", " ", "R", "i", "n", "g">>), OgTitle(<<"O", "g", " ", "R", "i", "n", "g">>)>>,
      <<H1(<<"S", "h", "o", "p">>), PageTitleBase(<<"K", "a", "u", "f", "e", "n", " ", "S", "i", "e", " ", "G", "o", "l", "d", " ", "R", "i", "n", "g", " ", "endash", " ", "G", "l", "a", "m", "i", "r", "a">>)>>,
      <<Title(<<"B", "u", "y", " ", "B", "u", "y", " ", "R", "i", "n", "g">>)>>,
      <<Title(<<"A", "c", "h", "e", "t", "e", "z", " ", "K", "a", "u", "f", "e", "n", " ", "S", "i", "e", " ", "R", "i", "n", "g">>)>>,
      <<Title(<<"C", "a", "p", "t", "c", "h", "a", " ", "R", "i", "n", "g">>)>>,
      <<Title(<<"E", "r", "r", "o", "r", " ", "4", "0", "4">>), H1(<<"N", "o", "t", " ", "F", "o", "u", "n", "d">>)>>,
      <<Title(<<"R", "i", "n", "g", " ", "A", "B", "C", " ", "|", " ", "E", "x", "a", "m", "p", "l", "e", " ", "S", "h", "o", "p">>), OgTitle(<<"S", "h", "o", "p", " ", "H", "o", "m", "e">>)>> }

ExtractLd ==
    { <<>>,
      <<ProductLd(<<"G", "o", "l", "d", " ", "R", "i", "n", "g", " ", "|", " ", "G", "l", "a", "m", "i", "r", "a">>)>>,
      <<ProductLd(<<"G", "o", "l", "d", " ", "R", "i", "n", "g", " ", "G", "l", "a", "m", "i", "r", "a", " ", "S", "t", "o", "r", "e">>)>>,
      <<[type |-> <<"O", "r", "g", "a", "n", "i", "z", "a", "t", "i", "o", "n">>, name |-> Some(<<"E", "x", "a", "m", "p", "l", "e", " ", "S", "h", "o", "p">>)], ProductLd(<<"S", "i", "l", "v", "e", "r", " ", "R", "i", "n", "g">>)>>,
      <<[type |-> <<"P", "r", "o", "d", "u", "c", "t">>, name |-> None]>> }

ExtractSkus == {None, Some(<<"R", "1", "2">>)}

ExtractPages ==
    {Page(b, e, None, l, w) : b \in ExtractBodies, e \in ExtractEls, l \in ExtractLd,
                              w \in ExtractSkus}
    \cup { DataLayerPage(DATALAYER_BODY, <<Title(<<"R", "i", "n", "g", " ", "A", "B", "C", " ", "|", " ", "E", "x", "a", "m", "p", "l", "e", " ", "S", "h", "o", "p">>)>>,
                         [name |-> Some(<<"G", "o", "l", "d", " ", "R", "i", "n", "g">>), sku |-> Some(<<"R", "1", "2">>)]),
           DataLayerPage(DATALAYER_BODY, <<>>, [name |-> None, sku |-> Some(<<"R", "1", "2">>)]) }

\* extract_product_name(doc) is entered
ExtractCall(doc) == [fn |-> "extract_product_name", pc |-> "called", doc |-> doc, result |-> None]

\* extract_product_name runs to its return
ExtractReturn ==
    /\ call.fn = "extract_product_name"
    /\ call.pc = "called"
    /\ call' = [call EXCEPT !.pc = "returned", !.result = extract_product_name(call.doc)]
    /\ UNCHANGED pipeline_vars

ExtractInit ==
    /\ cf_scraper = FALSE
    /\ debug_saved = 0
    /\ pc = "idle"
    /\ record = None
    /\ html = None
    /\ fetches = 0
    /\ returned = <<>>
    /\ http = IdleHttp
    /\ call \in {ExtractCall(p) : p \in ExtractPages}

ExtractNext == ExtractReturn

SpecExtract == ExtractInit /\ [][ExtractNext]_vars

ExtractReturned == call.fn = "extract_product_name" /\ call.pc = "returned"

\* C11: for every html whose lowercased text contains "cloudflare", "captcha",
\* "attention required" or "access denied", extract_product_name returns None,
\* whatever structured data, <h1> or <title> the page has
C11_BotWallGivesNone ==
    ExtractReturned =>
        LET lw == lower(Raw(call.doc))
        IN  (\/ contains(lw, <<"c", "l", "o", "u", "d", "f", "l", "a", "r", "e">>)
             \/ contains(lw, <<"c", "a", "p", "t", "c", "h", "a">>)
             \/ contains(lw, <<"a", "t", "t", "e", "n", "t", "i", "o", "n", " ", "r", "e", "q", "u", "i", "r", "e", "d">>)
             \/ contains(lw, <<"a", "c", "c", "e", "s", "s", " ", "d", "e", "n", "i", "e", "d">>)) => (call.result = None)

\* a challenge page with a Product block, an <h1> and a <title>
C11_Witness ==
    /\ ExtractReturned
    /\ call.doc.body = BOT_BODY
    /\ call.doc.ld = <<ProductLd(<<"G", "o", "l", "d", " ", "R", "i", "n", "g", " ", "|", " ", "G", "l", "a", "m", "i", "r", "a">>)>>
    /\ \E i \in 1..Len(call.doc.els) : call.doc.els[i].tag = "h1"
    /\ call.result = None

\* C12: for every html without a bot indicator that embeds an ld+json block
\* declaring a Product with a name the structured-data rule accepts,
\* extract_product_name returns that name, cut at the title separator and freed of
\* the trailing brand token, in preference to any selector match
C12_StructuredNameWins ==
    (/\ ExtractReturned
     /\ ~has_bot_wall(call.doc)
     /\ structured_data_stage(call.doc.ld) # None) =>
        (call.result = structured_data_stage(call.doc.ld))

\* the candidate the analytics stage is written to take from a dataLayer push:
\* product.name, else product.sku, stripped and whitespace-collapsed, if 2 < len < 200
analytics_candidate(doc) ==
    IF "dl" \notin DOMAIN doc THEN None
    ELSE LET candidate == IF doc.dl.name # None THEN doc.dl.name ELSE doc.dl.sku
         IN  IF candidate # None /\ 2 < Len(candidate.val) /\ Len(candidate.val) < 200
             THEN Some(collapse_whitespace(strip(candidate.val)))
             ELSE None

\* the first accepted candidate of a list of stage results
first_accepted(candidates) ==
    LET hits == {i \in 1..Len(candidates) : candidates[i] # None}
    IN  IF hits = {} THEN None ELSE candidates[MinOf(hits)]

\* C13: extract_product_name returns the accepted candidate of the earliest stage
\* in the order structured data, analytics payload, window.product sku, selector
\* chain; a later stage decides only when every earlier stage yielded nothing
C13_EarliestStageWins ==
    (ExtractReturned /\ ~has_bot_wall(call.doc)) =>
        (call.result = first_accepted(<<structured_data_stage(call.doc.ld),
                                        analytics_candidate(call.doc),
                                        window_product_stage(call.doc),
                                        selector_stage(Soup(call.doc))>>))

\* the cleaning steps of the selector chain, on a text
selector_cleaning(text) == strip_marketing_prefixes(cut_at_separators(collapse_whitespace(text)))

\* C16: cleaning is idempotent: the cleaning steps applied to a name that
\* extract_product_name returned (an already cleaned candidate) give the same name
C16_CleaningIdempotent ==
    (ExtractReturned /\ call.result # None) =>
        (selector_cleaning(call.result.val) = call.result.val)

(***************************************************************************)
(* Properties of process_single_url: extraction, slug fallback, recovery   *)
(***************************************************************************)
\* the page is nothing but a <title> element
IsTitleOnly(page) ==
    /\ page.body = <<>> /\ page.ld = <<>> /\ page.winsku = None /\ page.canonical = None
    /\ Len(page.els) = 1 /\ page.els[1].tag = "title"

\* a name the cleaning leaves as it is and the selector chain accepts
AcceptableName(name) ==
    /\ 3 < Len(name) /\ Len(name) < 200
    /\ selector_cleaning(name) = name
    /\ ~has_skip_phrase(name)

\* C14: for a page that is only a <title> "N | Site", with no bot indicator and no
\* non-product marker and N an acceptable name, process_single_url returns status
\* success with product_name N and the product_id of its record
C14_TitleBeforeSeparator ==
    (/\ pc = "done"
     /\ html # None
     /\ IsTitleOnly(html)
     /\ contains(html.els[1].text, <<" ", "|", " ">>)
     /\ AcceptableName(split_first(html.els[1].text, <<" ", "|", " ">>))
     /\ ~has_bot_wall(html)
     /\ ~NonProductOf[html]) =>
        (/\ Len(returned) = 1
         /\ returned[1].status = "success"
         /\ returned[1].product_name = Some(split_first(html.els[1].text, <<" ", "|", " ">>))
         /\ returned[1].product_id = record.product_id)

\* the scenario of the specification: "Ring ABC | Example Shop" fetched for product 42
\* at https://shop.example.de/glamira-ring-abc.html
C14_Witness ==
    /\ pc = "done"
    /\ html = TitleOnly(<<"R", "i", "n", "g", " ", "A", "B", "C", " ", "|", " ", "E", "x", "a", "m", "p", "l", "e", " ", "S", "h", "o", "p">>)
    /\ returned = <<[product_id |-> "42", url |-> URL_RING, source_collection |-> "summary",
                     product_name |-> Some(<<"R", "i", "n", "g", " ", "A", "B", "C">>), status |-> "success"]>>

\* C15: an outcome whose URL has no ".html" in its path never has status
\* slug_heuristic: when its page gives no name it ends with no_name_found and no name
C15_NoSlugWithoutHtmlSuffix ==
    \A o \in Returned :
        (~contains(o.url.path, <<".", "h", "t", "m", "l">>)) =>
            /\ o.status # "slug_heuristic"
            /\ (Truthy(html) /\ ~NonProductOf[html] /\ ~NameTruthy(ExtractOf[html])) =>
                   (o.status = "no_name_found" /\ o.product_name = None)

\* a page without a name at https://shop.example.de/product/42
C15_Witness ==
    \E o \in Returned :
        /\ o.url = URL_NO_HTML_SUFFIX
        /\ o.status = "no_name_found"
        /\ Truthy(html) /\ ~NameTruthy(ExtractOf[html])

\* the recovery fetch for the canonical link of a non-product page has returned a
\* page that is not a non-product page
C17_Recovered ==
    /\ pc = "recover"
    /\ http.pc = "returned"
    /\ Truthy(http.result)
    /\ ~NonProductOf[http.result]
    /\ CanonicalOf[html] # None

C17_StepAsStated ==
    C17_Recovered =>
        /\ Len(returned') = 1
        /\ returned'[1].status \in NAMED_STATUSES
        /\ returned'[1].url = CanonicalOf[html]
        /\ returned'[1].product_id = record.product_id
        /\ returned'[1].source_collection = record.source_collection

\* C17, as stated: after such a recovery process_single_url returns status success
\* or slug_heuristic with the canonical URL and the input's product_id and
\* source_collection
C17_RecoveredPageNamed == [][C17_StepAsStated]_vars

C17_StepAmended ==
    C17_Recovered =>
        /\ Len(returned') = 1
        /\ html' = http.result
        /\ returned'[1].url = CanonicalOf[html]
        /\ returned'[1].product_id = record.product_id
        /\ returned'[1].source_collection = record.source_collection
        /\ NameTruthy(ExtractOf[http.result]) =>
               (/\ returned'[1].status = "success"
                /\ returned'[1].product_name = ExtractOf[http.result])
        /\ (~NameTruthy(ExtractOf[http.result]) /\ NameTruthy(SlugNameOf[CanonicalOf[html]])) =>
               (/\ returned'[1].status = "slug_heuristic"
                /\ returned'[1].product_name = SlugNameOf[CanonicalOf[html]])
        /\ (~NameTruthy(ExtractOf[http.result]) /\ ~NameTruthy(SlugNameOf[CanonicalOf[html]])) =>
               (/\ returned'[1].status = "no_name_found"
                /\ returned'[1].product_name = None)

\* C17, amended: after such a recovery process_single_url extracts from the
\* recovered page and returns the canonical URL with the input's product_id and
\* source_collection; the status is success when the recovered page gives a name,
\* slug_heuristic when only the slug of the canonical URL does, and no_name_found
\* when neither does
C17_RecoveredPageExtracted == [][C17_StepAmended]_vars

\* a name extracted from the page at https://shop.example.de/ring-xyz.html, adopted
\* after a second fetch
C17_Witness ==
    /\ pc = "done"
    /\ fetches = 2
    /\ Truthy(html) /\ ~NonProductOf[html]
    /\ Len(returned) = 1
    /\ returned[1].url = URL_CANONICAL
    /\ returned[1].status = "success"

\* the outcome of a record whose page stays a non-product page
NonProductOutcome(rec) ==
    [product_id |-> rec.product_id, url |-> rec.url, source_collection |-> rec.source_collection,
     product_name |-> None, status |-> "non_product_page"]

C18_Step ==
    /\ (/\ pc = "fetch"
        /\ http.pc = "returned"
        /\ Truthy(http.result)
        /\ NonProductOf[http.result]
        /\ recovery_url(record, http.result) = record.url) =>
           (/\ returned' = <<NonProductOutcome(record)>>
            /\ record' = record
            /\ html' = http.result
            /\ fetches' = fetches)
    /\ (/\ pc = "recover"
        /\ http.pc = "returned"
        /\ (~Truthy(http.result) \/ NonProductOf[http.result])) =>
           (/\ returned' = <<NonProductOutcome(record)>>
            /\ record' = record
            /\ html' = html)

\* C18: when the fetched page is a non-product page and recovery gives no page that
\* is not one (nothing else to fetch, recovery fetch None or empty, recovered page a
\* non-product page again), process_single_url returns non_product_page with no
\* name, and keeps the original URL and html
C18_FailedRecoveryKeepsOriginal == [][C18_Step]_vars

\* a non-product outcome after a recovery fetch
C18_Witness ==
    /\ pc = "done"
    /\ fetches = 2
    /\ Truthy(html) /\ NonProductOf[html]
    /\ returned = <<NonProductOutcome(record)>>

\* C19: process_single_url calls http_get at most twice: first for the record's
\* URL, then at most once for the canonical URL of the fetched page or, without one,
\* for the record's URL stripped of query and fragment
C19_AtMostTwoFetches ==
    /\ fetches <= 2
    /\ (pc = "fetch") => (fetches = 1 /\ http.url = record.url)
    /\ (pc = "recover") =>
           (/\ fetches = 2
            /\ NonProductOf[html]
            /\ http.url = (IF CanonicalOf[html] # None THEN CanonicalOf[html]
                           ELSE StripQueryFragment(record.url))
            /\ http.url # record.url)

\* the recovery fetch goes to the stripped URL of a page without canonical link
C19_Witness ==
    /\ pc = "recover"
    /\ CanonicalOf[html] = None
    /\ http.url = StripQueryFragment(record.url)

(***************************************************************************)
(* Deduplicator: deduplicate_by_product_id on its own.  The candidates are *)
(* outcome dicts as process_single_url returns them, and one row whose     *)
(* product_id is empty; the loop over the rows takes one step per row.     *)
(***************************************************************************)
MaxCandidates == 3

DedupRow(product_id, source_collection, product_name, status) ==
    OutcomeRecord(UrlRecord(product_id, URL_RING, source_collection), product_name, status)

DedupRows ==
    { DedupRow("7", "summary", Some(<<"F", "o", "o">>), "success"),
      DedupRow("7", "detail", Some(<<"F", "o", "o", " ", "R", "i", "n", "g">>), "success") }
    \cup {DedupRow("7", sc, Some(<<"R", "i", "n", "g", " ", "A", "b", "c">>), "slug_heuristic") : sc \in {"summary", "detail"}}
    \cup {DedupRow("7", sc, None, "no_name_found") : sc \in {"summary", "detail"}}
    \cup {DedupRow("7", sc, None, "non_product_page") : sc \in {"summary", "detail"}}
    \cup { DedupRow("8", "summary", Some(<<"B", "a", "r">>), "success"),
           DedupRow("8", "summary", None, "no_html"),
           DedupRow("", "summary", Some(<<"F", "o", "o">>), "success") }

\* the lists of at most MaxCandidates rows
CandidateLists ==
    UNION {[1..n -> DedupRows] : n \in 0..MaxCandidates}

\* a variant of dedup_row that, instead of replacing an unnamed record by a named
\* one, copies the name into the record it holds
dedup_row_merges_name(grouped, order, row) ==
    LET pid == row.product_id
        has_name == NameTruthy(row.product_name)
    IN  IF pid = "" THEN [grouped |-> grouped, order |-> order]
        ELSE IF pid \notin DOMAIN grouped
        THEN [grouped |-> (pid :> row) @@ grouped, order |-> Append(order, pid)]
        ELSE LET existing_status == grouped[pid].status
                 existing_has_name == NameTruthy(grouped[pid].product_name)
             IN  IF has_name /\ ~existing_has_name
                 THEN [grouped |-> [grouped EXCEPT ![pid] =
                                       [grouped[pid] EXCEPT !.product_name = row.product_name]],
                       order |-> order]
                 ELSE IF has_name /\ existing_has_name
                         /\ row.status = "success" /\ existing_status # "success"
                 THEN [grouped |-> [grouped EXCEPT ![pid] = row], order |-> order]
                 ELSE [grouped |-> grouped, order |-> order]

\* a variant of dedup_row in which a later row of a product always replaces the kept one
dedup_row_last_wins(grouped, order, row) ==
    LET pid == row.product_id
        has_name == NameTruthy(row.product_name)
    IN  IF pid = "" THEN [grouped |-> grouped, order |-> order]
        ELSE IF pid \notin DOMAIN grouped
        THEN [grouped |-> (pid :> row) @@ grouped, order |-> Append(order, pid)]
        ELSE LET existing_status == grouped[pid].status
                 existing_has_name == NameTruthy(grouped[pid].product_name)
             IN  IF TRUE
                 THEN [grouped |-> [grouped EXCEPT ![pid] = row], order |-> order]
                 ELSE IF FALSE
                 THEN [grouped |-> [grouped EXCEPT ![pid] = row], order |-> order]
                 ELSE [grouped |-> grouped, order |-> order]

\* a variant of dedup_row without the elif branch: a named success row does not replace
\* a named row of another status
dedup_row_without_status_rule(grouped, order, row) ==
    LET pid == row.product_id
        has_name == NameTruthy(row.product_name)
    IN  IF pid = "" THEN [grouped |-> grouped, order |-> order]
        ELSE IF pid \notin DOMAIN grouped
        THEN [grouped |-> (pid :> row) @@ grouped, order |-> Append(order, pid)]
        ELSE LET existing_status == grouped[pid].status
                 existing_has_name == NameTruthy(grouped[pid].product_name)
             IN  IF has_name /\ ~existing_has_name
                 THEN [grouped |-> [grouped EXCEPT ![pid] = row], order |-> order]
                 ELSE IF FALSE
                 THEN [grouped |-> [grouped EXCEPT ![pid] = row], order |-> order]
                 ELSE [grouped |-> grouped, order |-> order]

\* a variant of dedup_row in which a later row also replaces a kept row of its own rank
dedup_row_replaces_ties(grouped, order, row) ==
    LET pid == row.product_id
        has_name == NameTruthy(row.product_name)
    IN  IF pid = "" THEN [grouped |-> grouped, order |-> order]
        ELSE IF pid \notin DOMAIN grouped
        THEN [grouped |-> (pid :> row) @@ grouped, order |-> Append(order, pid)]
        ELSE LET existing_status == grouped[pid].status
                 existing_has_name == NameTruthy(grouped[pid].product_name)
             IN  IF ~existing_has_name
                 THEN [grouped |-> [grouped EXCEPT ![pid] = row], order |-> order]
                 ELSE IF has_name /\ existing_has_name /\ (row.status = "success" \/ existing_status # "success")
                 THEN [grouped |-> [grouped EXCEPT ![pid] = row], order |-> order]
                 ELSE [grouped |-> grouped, order |-> order]

\* a variant of dedup_row whose elif branch replaces on any difference of status
dedup_row_any_status_change(grouped, order, row) ==
    LET pid == row.product_id
        has_name == NameTruthy(row.product_name)
    IN  IF pid = "" THEN [grouped |-> grouped, order |-> order]
        ELSE IF pid \notin DOMAIN grouped
        THEN [grouped |-> (pid :> row) @@ grouped, order |-> Append(order, pid)]
        ELSE LET existing_status == grouped[pid].status
                 existing_has_name == NameTruthy(grouped[pid].product_name)
             IN  IF has_name /\ ~existing_has_name
                 THEN [grouped |-> [grouped EXCEPT ![pid] = row], order |-> order]
                 ELSE IF has_name /\ existing_has_name /\ row.status # existing_status
                 THEN [grouped |-> [grouped EXCEPT ![pid] = row], order |-> order]
                 ELSE [grouped |-> grouped, order |-> order]

\* the body of "for row in candidates": grouped is the dict, order the order in
\* which its keys were inserted
dedup_row(grouped, order, row) ==
    LET pid == row.product_id
        has_name == NameTruthy(row.product_name)
    IN  IF pid = "" THEN [grouped |-> grouped, order |-> order]
        ELSE IF pid \notin DOMAIN grouped
        THEN [grouped |-> (pid :> row) @@ grouped, order |-> Append(order, pid)]
        ELSE LET existing_status == grouped[pid].status
                 existing_has_name == NameTruthy(grouped[pid].product_name)
             IN  IF has_name /\ ~existing_has_name
                 THEN [grouped |-> [grouped EXCEPT ![pid] = row], order |-> order]
                 ELSE IF has_name /\ existing_has_name
                         /\ row.status = "success" /\ existing_status # "success"
                 THEN [grouped |-> [grouped EXCEPT ![pid] = row], order |-> order]
                 ELSE [grouped |-> grouped, order |-> order]

\* deduplicate_by_product_id(candidates) as one value: the loop over the rows, then
\* list(grouped.values())
deduplicate_by_product_id(candidates) ==
    IF candidates = <<>> THEN <<>>
    ELSE LET d == Fold(LAMBDA acc, i : dedup_row(acc.grouped, acc.order, candidates[i]),
                       [grouped |-> <<>>, order |-> <<>>], Len(candidates))
         IN  [j \in 1..Len(d.order) |-> d.grouped[d.order[j]]]

\* deduplicate_by_product_id(candidates) is entered
DedupCall(candidates) ==
    [fn |-> "deduplicate_by_product_id", pc |-> "loop", candidates |-> candidates, i |-> 1,
     grouped |-> <<>>, order |-> <<>>, result |-> None]

\* one iteration of the loop over the rows
DedupStep ==
    /\ call.fn = "deduplicate_by_product_id"
    /\ call.pc = "loop"
    /\ call.i <= Len(call.candidates)
    /\ LET d == dedup_row(call.grouped, call.order, call.candidates[call.i])
       IN  call' = [call EXCEPT !.i = call.i + 1, !.grouped = d.grouped, !.order = d.order]
    /\ UNCHANGED pipeline_vars

\* "return []" for no candidates, else "return list(grouped.values())" after the loop
DedupReturn ==
    /\ call.fn = "deduplicate_by_product_id"
    /\ call.pc = "loop"
    /\ call.i > Len(call.candidates)
    /\ call' = [call EXCEPT !.pc = "returned",
                            !.result = IF call.candidates = <<>> THEN <<>>
                                       ELSE [j \in 1..Len(call.order) |->
                                                call.grouped[call.order[j]]]]
    /\ UNCHANGED pipeline_vars

DedupInit ==
    /\ cf_scraper = FALSE
    /\ debug_saved = 0
    /\ pc = "idle"
    /\ record = None
    /\ html = None
    /\ fetches = 0
    /\ returned = <<>>
    /\ http = IdleHttp
    /\ call \in {DedupCall(c) : c \in CandidateLists}

DedupNext ==
    \/ DedupStep
    \/ DedupReturn

SpecDedup == DedupInit /\ [][DedupNext]_vars

DedupReturned == call.fn = "deduplicate_by_product_id" /\ call.pc = "returned"

\* the product_ids that occur in a list of rows (an empty product_id is none)
IdsOf(rows) == {rows[i].product_id : i \in 1..Len(rows)} \ {""}

\* C20: deduplicate_by_product_id returns exactly one entry for every distinct
\* (non-empty) product_id of its input and none else, and each entry is one of the
\* input rows of that product_id, unmodified
C20_OneInputRowPerId ==
    DedupReturned =>
        /\ \A pid \in IdsOf(call.candidates) :
              Cardinality({j \in 1..Len(call.result) : call.result[j].product_id = pid}) = 1
        /\ \A j \in 1..Len(call.result) :
              /\ call.result[j].product_id \in IdsOf(call.candidates)
              /\ \E i \in 1..Len(call.candidates) : call.candidates[i] = call.result[j]

\* three rows of two products, two entries returned
C20_Witness ==
    /\ DedupReturned
    /\ Len(call.candidates) = 3
    /\ IdsOf(call.candidates) = {"7", "8"}
    /\ Len(call.result) = 2

(***************************************************************************)
(* The merge priority of the Deduplicator.                                 *)
(***************************************************************************)
Named(row) == NameTruthy(row.product_name)

\* the rank of a row under rules (a) and (b): a named success row, a named row of
\* another status, an unnamed row
Rank(row) ==
    IF Named(row) /\ row.status = "success" THEN "named success"
    ELSE IF Named(row) THEN "named" ELSE "unnamed"

Outranks(r, s) ==
    \/ Rank(r) = "named success" /\ Rank(s) # "named success"
    \/ Rank(r) = "named" /\ Rank(s) = "unnamed"

\* the positions of the rows of one product
RowsOf(rows, pid) == {k \in 1..Len(rows) : rows[k].product_id = pid}

\* C21: at every point of the reduction, a product of which a named row has been
\* seen is held with a named row (so a named row is never given up for an unnamed
\* one), and the returned entry of such a product carries a product_name
C21_NamedStaysNamed ==
    call.fn = "deduplicate_by_product_id" =>
        /\ \A k \in 1..(call.i - 1) :
              (call.candidates[k].product_id # "" /\ Named(call.candidates[k]))
                  => Named(call.grouped[call.candidates[k].product_id])
        /\ call.pc = "returned" =>
              \A k \in 1..Len(call.candidates) :
                  (call.candidates[k].product_id # "" /\ Named(call.candidates[k]))
                      => \E j \in 1..Len(call.result) :
                            /\ call.result[j].product_id = call.candidates[k].product_id
                            /\ Named(call.result[j])

\* the scenario of product "7": an unnamed no_name_found row, then the success row
\* named Foo, then another unnamed row; the merge yields the second
C21_Witness ==
    /\ DedupReturned
    /\ call.candidates = << DedupRow("7", "summary", None, "no_name_found"),
                            DedupRow("7", "summary", Some(<<"F", "o", "o">>), "success"),
                            DedupRow("7", "detail", None, "non_product_page") >>
    /\ call.result = << DedupRow("7", "summary", Some(<<"F", "o", "o">>), "success") >>

\* C22: a product of which some row is named and has status success is returned
\* with status success, wherever that row stands in the list
C22_NamedSuccessWins ==
    DedupReturned =>
        \A k \in 1..Len(call.candidates) :
            (call.candidates[k].product_id # "" /\ Rank(call.candidates[k]) = "named success")
                => \A j \in RowsOf(call.result, call.candidates[k].product_id) :
                      call.result[j].status = "success"

\* a named slug_heuristic row first, the named success row after it
C22_Witness ==
    /\ DedupReturned
    /\ Len(call.candidates) = 2
    /\ RowsOf(call.candidates, "7") = {1, 2}
    /\ Rank(call.candidates[1]) = "named"
    /\ Rank(call.candidates[2]) = "named success"
    /\ call.result = << call.candidates[2] >>

\* C23: the entry returned for a product is the first row, in list order, among
\* its rows that no other of its rows outranks
C23_FirstSeenOfBestRank ==
    DedupReturned =>
        \A j \in 1..Len(call.result) :
            LET rows == RowsOf(call.candidates, call.result[j].product_id)
                best == {k \in rows : \A m \in rows :
                                        ~Outranks(call.candidates[m], call.candidates[k])}
            IN  call.result[j] = call.candidates[MinOf(best)]

\* three rows of one product and one rank, the first differing from the others
C23_Witness ==
    /\ DedupReturned
    /\ Len(call.candidates) = 3
    /\ RowsOf(call.candidates, "7") = {1, 2, 3}
    /\ \A k \in 2..3 : /\ Rank(call.candidates[k]) = Rank(call.candidates[1])
                       /\ call.candidates[k] # call.candidates[1]
    /\ call.result = << call.candidates[1] >>

\* C24: for rows that share one product_id, every permutation of the list gives
\* the same merged record
C24_OrderIndependent ==
    (DedupReturned /\ \E pid \in IdsOf(call.candidates) :
                          RowsOf(call.candidates, pid) = 1..Len(call.candidates))
        => \A p \in Permutations(1..Len(call.candidates)) :
              deduplicate_by_product_id([k \in 1..Len(call.candidates) |-> call.candidates[p[k]]])
                  = call.result

\* the rows of a list that none of its rows outranks
BestRows(rows) ==
    {rows[k] : k \in {k \in 1..Len(rows) : \A m \in 1..Len(rows) : ~Outranks(rows[m], rows[k])}}

\* C24 (amended): for rows that share one product_id, every permutation of the list
\* gives one merged record, of the highest rank among the rows; it is the same
\* record for every permutation when the rows of that rank are all equal
C24_OrderIndependentUpToTies ==
    (DedupReturned /\ \E pid \in IdsOf(call.candidates) :
                          RowsOf(call.candidates, pid) = 1..Len(call.candidates))
        => \A p \in Permutations(1..Len(call.candidates)) :
              LET merged == deduplicate_by_product_id(
                                [k \in 1..Len(call.candidates) |-> call.candidates[p[k]]])
              IN  /\ Len(merged) = 1
                  /\ merged[1] \in BestRows(call.candidates)
                  /\ Cardinality(BestRows(call.candidates)) = 1 => merged = call.result

\* three rows of one product and three ranks, the named success row last
C24_Witness ==
    /\ DedupReturned
    /\ Len(call.candidates) = 3
    /\ RowsOf(call.candidates, "7") = {1, 2, 3}
    /\ Rank(call.candidates[1]) = "named"
    /\ Rank(call.candidates[2]) = "unnamed"
    /\ Rank(call.candidates[3]) = "named success"
    /\ call.result = << call.candidates[3] >>

\* the entries of one product in a list
EntriesOf(rows, pid) == {rows[k] : k \in RowsOf(rows, pid)}

\* C25: for every way of cutting the list into A and B, merging merge(A) followed
\* by merge(B) gives for every product the record that merging the whole list gives
C25_Associative ==
    DedupReturned =>
        \A n \in 0..Len(call.candidates) :
            LET A == SubSeq(call.candidates, 1, n)
                B == SubSeq(call.candidates, n + 1, Len(call.candidates))
                merged == deduplicate_by_product_id(
                              deduplicate_by_product_id(A) \o deduplicate_by_product_id(B))
            IN  \A pid \in IdsOf(call.candidates) \cup IdsOf(merged) :
                    EntriesOf(merged, pid) = EntriesOf(call.result, pid)

\* three rows of one product in rising rank: each cut has the winner of A beaten
\* by the winner of B
C25_Witness ==
    /\ DedupReturned
    /\ Len(call.candidates) = 3
    /\ RowsOf(call.candidates, "7") = {1, 2, 3}
    /\ Outranks(call.candidates[2], call.candidates[1])
    /\ Outranks(call.candidates[3], call.candidates[2])
    /\ call.result = << call.candidates[3] >>

(***************************************************************************)
(* ParallelScheduler: crawl_product_names_parallel on its own.  The thread *)
(* pool is ThreadPoolExecutor(max_workers=MAX_WORKERS): submit queues a    *)
(* work item and starts a thread unless an idle one is signalled or the    *)
(* pool is full; a thread runs the queued items, first in first out.       *)
(* as_completed yields the futures that are finished when it is entered in *)
(* the order of a set, and the others as they finish.                      *)
(***************************************************************************)
MAX_WORKERS == 3

MaxBatch == 4

\* the batch of n records, one per product
BatchRecords(n) == [k \in 1..n |-> UrlRecord(ToString(k), URL_RING, "summary")]

\* what process_single_url returns for a record of the batch when it does not raise
worker_outcome(rec) ==
    IF rec.product_id \in {"1", "3", "5"} THEN OutcomeRecord(rec, Some(<<"F", "o", "o">>), "success")
    ELSE no_html_outcome(rec)

\* how the process_single_url invocation of a record can end: every record can
\* return, the second of a batch can raise as well
worker_ends(rec) ==
    IF rec.product_id = "2" THEN {"finished", "raised"} ELSE {"finished"}

\* log_every = max(1, total // 20) if total > 0 else 1
log_every(total) == IF total > 0 THEN MaxOf({1, total \div 20}) ELSE 1

\* the orders in which the elements of a set can be listed
Orderings(S) ==
    {s \in [1..Cardinality(S) -> S] : \A a, b \in 1..Cardinality(S) : s[a] = s[b] => a = b}

PoolCall(records) ==
    [fn |-> "crawl_product_names_parallel", pc |-> "submit", records |-> records,
     futures |-> <<>>, nthreads |-> 0, idle |-> 0, finished_order |-> <<>>,
     finished_at_enter |-> 0, ready |-> <<>>,
     results |-> <<>>, completed |-> 0, warnings |-> 0, gc_runs |-> 0, result |-> None]

InPool == call.fn = "crawl_product_names_parallel"

\* the futures whose process_single_url invocation is running
Running == {f \in 1..Len(call.futures) : call.futures[f] = "running"}

Queued == {f \in 1..Len(call.futures) : call.futures[f] = "queued"}

Done == {f \in 1..Len(call.futures) : call.futures[f] \in {"finished", "raised"}}

\* a variant of PoolSubmit that starts a thread for every record
PoolSubmit_thread_per_record ==
    /\ InPool
    /\ call.pc = "submit"
    /\ Len(call.futures) < Len(call.records)
    /\ call' = [call EXCEPT !.futures = Append(call.futures, "queued"),
                            !.nthreads = call.nthreads + 1]
    /\ UNCHANGED pipeline_vars

\* executor.submit(process_single_url, r) for the next record
PoolSubmit ==
    /\ InPool
    /\ call.pc = "submit"
    /\ Len(call.futures) < Len(call.records)
    /\ call' = [call EXCEPT !.futures = Append(call.futures, "queued"),
                            !.idle = IF call.idle > 0 THEN call.idle - 1 ELSE call.idle,
                            !.nthreads = IF call.idle = 0 /\ call.nthreads < MAX_WORKERS
                                         THEN call.nthreads + 1 ELSE call.nthreads]
    /\ UNCHANGED pipeline_vars

\* a thread of the pool takes the oldest queued work item and calls process_single_url
WorkerStart ==
    /\ InPool
    /\ Queued # {}
    /\ Cardinality(Running) < call.nthreads
    /\ call' = [call EXCEPT !.futures[MinOf(Queued)] = "running"]
    /\ UNCHANGED pipeline_vars

\* process_single_url returns or raises; the future is set and the waiter of
\* as_completed, when installed, is told
WorkerFinish ==
    /\ InPool
    /\ \E f \in Running : \E outcome \in worker_ends(call.records[f]) :
          call' = [call EXCEPT !.futures[f] = outcome,
                               !.idle = call.idle + 1,
                               !.finished_order = Append(call.finished_order, f),
                               !.ready = IF call.pc = "collect" THEN Append(call.ready, f)
                                         ELSE call.ready]
    /\ UNCHANGED pipeline_vars

\* as_completed(futures) is entered: the futures finished by now are listed from a set
AsCompletedEnter ==
    /\ InPool
    /\ call.pc = "submit"
    /\ Len(call.futures) = Len(call.records)
    /\ \E order \in Orderings(Done) :
          call' = [call EXCEPT !.pc = "collect", !.ready = order,
                               !.finished_at_enter = Cardinality(Done)]
    /\ UNCHANGED pipeline_vars

\* a variant of Collect in which the exception of a worker leaves the loop: the
\* batch ends with the results so far
Collect_aborts_on_error ==
    /\ InPool
    /\ call.pc = "collect"
    /\ call.ready # <<>>
    /\ LET f == Head(call.ready)
           total == Len(call.records)
       IN  IF call.futures[f] = "finished"
           THEN call' = [call EXCEPT !.ready = Tail(call.ready),
                                     !.results = Append(call.results, worker_outcome(call.records[f])),
                                     !.completed = call.completed + 1]
           ELSE call' = [call EXCEPT !.ready = <<>>, !.completed = total,
                                     !.warnings = call.warnings + 1]
    /\ UNCHANGED pipeline_vars

\* one iteration of "for future in as_completed(futures)"
Collect ==
    /\ InPool
    /\ call.pc = "collect"
    /\ call.ready # <<>>
    /\ LET f == Head(call.ready)
           total == Len(call.records)
           completed == call.completed + 1
       IN  \E over_limit \in BOOLEAN :
              call' = [call EXCEPT
                          !.ready = Tail(call.ready),
                          !.results = IF call.futures[f] = "finished"
                                      THEN Append(call.results, worker_outcome(call.records[f]))
                                      ELSE call.results,
                          !.warnings = IF call.futures[f] = "raised"
                                       THEN call.warnings + 1 ELSE call.warnings,
                          !.completed = completed,
                          !.gc_runs = IF (completed % log_every(total) = 0 \/ completed = total)
                                         /\ over_limit
                                      THEN call.gc_runs + 1 ELSE call.gc_runs]
    /\ UNCHANGED pipeline_vars

\* a variant of PoolReturn that does not wait for the futures it has not seen
PoolReturn_without_waiting ==
    /\ InPool
    /\ call.pc = "collect"
    /\ call.ready = <<>>
    /\ call' = [call EXCEPT !.pc = "returned", !.result = Some(call.results)]
    /\ UNCHANGED pipeline_vars

\* as_completed is exhausted, the with block joins the threads, return results
PoolReturn ==
    /\ InPool
    /\ call.pc = "collect"
    /\ call.completed = Len(call.records)
    /\ call' = [call EXCEPT !.pc = "returned", !.result = Some(call.results)]
    /\ UNCHANGED pipeline_vars

PoolInit ==
    /\ cf_scraper = FALSE
    /\ debug_saved = 0
    /\ pc = "idle"
    /\ record = None
    /\ html = None
    /\ fetches = 0
    /\ returned = <<>>
    /\ http = IdleHttp
    /\ call \in {PoolCall(BatchRecords(n)) : n \in 0..MaxBatch}

PoolNext ==
    \/ PoolSubmit
    \/ WorkerStart
    \/ WorkerFinish
    \/ AsCompletedEnter
    \/ Collect
    \/ PoolReturn

SpecPool == PoolInit /\ [][PoolNext]_vars

\* the process keeps running while a thread of it can take a step: a fetch
\* terminates, so a started process_single_url finishes, and the calling thread
\* is woken when a future is set
SpecPoolLive == PoolInit /\ [][PoolNext]_vars /\ WF_vars(PoolNext)

PoolReturned == InPool /\ call.pc = "returned"

(***************************************************************************)
(* Properties of the ParallelScheduler.                                    *)
(***************************************************************************)
\* the position of x in a list that holds it once
PosIn(s, x) == CHOOSE i \in 1..Len(s) : s[i] = x

\* the future of the record an outcome belongs to
FutureOf(outcome) ==
    CHOOSE f \in 1..Len(call.records) : call.records[f].product_id = outcome.product_id

\* none lost, none duplicated, a raising worker logged and left out, the batch not
\* aborted: the result list holds the outcome of every record whose worker
\* returned, once, and nothing else
ExactlyTheReturnedOutcomes ==
    /\ Len(call.futures) = Len(call.records)
    /\ \A f \in 1..Len(call.futures) :
          /\ call.futures[f] \in {"finished", "raised"}
          /\ Cardinality({j \in 1..Len(call.results) :
                             call.results[j] = worker_outcome(call.records[f])})
                = IF call.futures[f] = "finished" THEN 1 ELSE 0
    /\ Len(call.results) = Cardinality({f \in 1..Len(call.futures) : call.futures[f] = "finished"})
    /\ call.warnings = Cardinality({f \in 1..Len(call.futures) : call.futures[f] = "raised"})
    /\ call.result = Some(call.results)

\* C26: the call returns the outcome of every record whose worker did not raise,
\* once each, in the order in which the workers finished; a worker that raised is
\* logged and contributes nothing
C26_OutcomesInCompletionOrder ==
    PoolReturned =>
        /\ ExactlyTheReturnedOutcomes
        /\ \A i, j \in 1..Len(call.results) :
              i < j => PosIn(call.finished_order, FutureOf(call.results[i]))
                          < PosIn(call.finished_order, FutureOf(call.results[j]))

\* C26 (amended): as C26, but the order is the one in which as_completed yields the
\* futures: those finished before it is entered come first, in any order, and the
\* others follow in the order in which they finished
C26_OutcomesInYieldOrder ==
    PoolReturned =>
        /\ ExactlyTheReturnedOutcomes
        /\ \A i, j \in 1..Len(call.results) :
              LET a == PosIn(call.finished_order, FutureOf(call.results[i]))
                  b == PosIn(call.finished_order, FutureOf(call.results[j]))
              IN  (i < j /\ b > call.finished_at_enter) => a < b

\* four records: the worker of the second raised, the three outcomes are returned
\* in an order that is not the order of submission, and two of the workers had
\* finished before as_completed was entered
C26_Witness ==
    /\ PoolReturned
    /\ Len(call.records) = 4
    /\ call.futures[2] = "raised"
    /\ call.warnings = 1
    /\ Len(call.results) = 3
    /\ call.finished_at_enter = 2
    /\ call.results[1].product_id = "4"
    /\ call.results[3].product_id = "1"

\* C27: never more than MAX_WORKERS process_single_url invocations run at once
C27_AtMostMaxWorkersRunning ==
    InPool => /\ Cardinality(Running) <= MAX_WORKERS
              /\ call.nthreads <= MAX_WORKERS

\* the pool is full and a record of the batch waits in the queue
C27_Witness ==
    /\ InPool
    /\ Cardinality(Running) = MAX_WORKERS
    /\ Queued # {}

\* a future only moves from queued to running and from running to finished or
\* raised: none is cancelled or dropped
NoCancellation ==
    /\ Len(call'.futures) >= Len(call.futures)
    /\ \A f \in 1..Len(call.futures) :
          \/ call'.futures[f] = call.futures[f]
          \/ call.futures[f] = "queued" /\ call'.futures[f] = "running"
          \/ call.futures[f] = "running" /\ call'.futures[f] \in {"finished", "raised"}

\* C28: the call returns only when every record of the batch has been submitted and
\* has finished or raised; no future is ever cancelled, a garbage-collection pass
\* included; and the call does return
C28_RunsToCompletion ==
    /\ [](PoolReturned => /\ Len(call.futures) = Len(call.records)
                          /\ \A f \in 1..Len(call.futures) :
                                call.futures[f] \in {"finished", "raised"})
    /\ [][InPool => NoCancellation]_vars
    /\ <>PoolReturned

\* a batch larger than the pool has returned after two garbage-collection passes,
\* the first of which ran while records were still outstanding
C28_Witness ==
    /\ PoolReturned
    /\ Len(call.records) = MaxBatch
    /\ call.gc_runs >= 2
    /\ Done = 1..Len(call.records)

(***************************************************************************)
(* Output sink: the batch loop of main with its two artifacts.  A file is  *)
(* absent (None) or a list of lines; the crawl of a batch is any list of   *)
(* outcomes of products that no earlier batch has produced.                *)
(***************************************************************************)
MaxBatches == 2

MaxRows == 2

HeaderLine == [line |-> "header"]

\* writer.writerow(row)
RowLine(row) == [line |-> "row", row |-> row]

\* json.dumps(row) + "\n"
JsonLine(row) == [line |-> "json", row |-> row]

FileLines(file) == IF file = None THEN <<>> ELSE file.val

\* a variant of append_candidates_jsonl that opens the file with mode "w"
append_candidates_jsonl_truncating(candidates, file) ==
    Some([k \in 1..Len(candidates) |-> JsonLine(candidates[k])])

\* open(path, "a") and one line per row
append_candidates_jsonl(candidates, file) ==
    Some(FileLines(file) \o [k \in 1..Len(candidates) |-> JsonLine(candidates[k])])

\* file_exists = os.path.exists(path); open(path, "a"); the header if not
\* file_exists; the rows
append_final_csv(candidates, file) ==
    LET file_exists == file # None
    IN  Some(FileLines(file) \o (IF ~file_exists THEN <<HeaderLine>> ELSE <<>>)
                \o [k \in 1..Len(candidates) |-> RowLine(candidates[k])])

\* [row for row in rows if row.get("product_name")]
named_only(rows) ==
    Concat(LAMBDA k : IF NameTruthy(rows[k].product_name) THEN <<rows[k]>> ELSE <<>>, Len(rows))

\* the outcomes a crawl can return
MainRows ==
    { DedupRow("7", "summary", Some(<<"F", "o", "o">>), "success"),
      DedupRow("7", "detail", Some(<<"F", "o", "o", " ", "R", "i", "n", "g">>), "success"),
      DedupRow("7", "summary", Some(<<"R", "i", "n", "g", " ", "A", "b", "c">>), "slug_heuristic"),
      DedupRow("7", "summary", None, "no_name_found"),
      DedupRow("8", "summary", Some(<<"B", "a", "r">>), "success"),
      DedupRow("8", "summary", None, "no_html") }

MainCandidateLists == UNION {[1..n -> MainRows] : n \in 0..MaxRows}

\* the final CSV of an earlier run
EARLIER_CSV == <<HeaderLine, RowLine(DedupRow("6", "summary", Some(<<"B", "a", "r">>), "success"))>>

\* the candidates file of an earlier run
EARLIER_JSONL == <<JsonLine(DedupRow("6", "summary", Some(<<"B", "a", "r">>), "success"))>>

\* the product_ids of the records of the input
MainPids == {"7", "8"}

\* a batch of the input, by the product_ids of its records
MainBatches == UNION {[1..n -> MainPids] : n \in 0..MaxRows}

\* filtered_out is original_batch_size - filtered_batch_size of the batch;
\* url_records holds the product_ids of the records given to the crawl of the batch;
\* outcome_pids (the products that have had a deduplicated outcome in a batch) and
\* csv_at_start are history
MainCall(jsonl, csv) ==
    [fn |-> "main", pc |-> "batch", batch_count |-> 0, existing_pids |-> {},
     filtered_out |-> 0, url_records |-> <<>>, candidates |-> <<>>, unique_candidates |-> <<>>,
     jsonl |-> jsonl, csv |-> csv, total_processed |-> 0, total_with_name |-> 0,
     outcome_pids |-> {}, csv_at_start |-> csv]

\* [record for record in batch_data if record.get('product_id') not in existing_pids]
filter_existing(batch_data, existing_pids) ==
    Concat(LAMBDA k : IF batch_data[k] \in existing_pids THEN <<>> ELSE <<batch_data[k]>>,
           Len(batch_data))

\* the records that process_batch_data keeps: those of the positions in kept
url_records_of(batch_data, kept) ==
    Concat(LAMBDA k : IF k \in kept THEN <<batch_data[k]>> ELSE <<>>, Len(batch_data))

\* candidates holds at most one outcome for each record of url_records, in any order
IsCrawlOf(candidates, url_records) ==
    \E f \in [1..Len(candidates) -> 1..Len(url_records)] :
        /\ \A j, k \in 1..Len(candidates) : f[j] = f[k] => j = k
        /\ \A k \in 1..Len(candidates) : candidates[k].product_id = url_records[f[k]]

InMain == call.fn = "main"

\* a batch of which nothing is left after the filters: continue
MainSkipBatch ==
    /\ InMain
    /\ call.pc = "batch"
    /\ call.batch_count < MaxBatches
    /\ call' = [call EXCEPT !.batch_count = call.batch_count + 1]
    /\ UNCHANGED pipeline_vars

\* the next batch, without the products of existing_pids, is crawled and the
\* candidates are deduplicated
MainCrawlBatch ==
    /\ InMain
    /\ call.pc = "batch"
    /\ call.batch_count < MaxBatches
    /\ \E batch_data \in MainBatches :
          LET filtered == filter_existing(batch_data, call.existing_pids)
          IN  /\ filtered # <<>>
              /\ \E kept \in SUBSET (1..Len(filtered)) :
                    LET url_records == url_records_of(filtered, kept)
                    IN  /\ url_records # <<>>
                        /\ \E candidates \in MainCandidateLists :
                              /\ IsCrawlOf(candidates, url_records)
                              /\ call' = [call EXCEPT
                                    !.batch_count = call.batch_count + 1,
                                    !.pc = "crawled",
                                    !.filtered_out = Len(batch_data) - Len(filtered),
                                    !.url_records = url_records,
                                    !.candidates = candidates,
                                    !.unique_candidates = deduplicate_by_product_id(candidates),
                                    !.outcome_pids = call.outcome_pids \cup
                                        IdsOf(deduplicate_by_product_id(candidates))]
    /\ UNCHANGED pipeline_vars

\* append_candidates_jsonl(candidates)
MainAppendJsonl ==
    /\ InMain
    /\ call.pc = "crawled"
    /\ call' = [call EXCEPT !.pc = "jsonl_written",
                            !.jsonl = append_candidates_jsonl(call.candidates, call.jsonl)]
    /\ UNCHANGED pipeline_vars

\* a variant of MainAppendCsv that remembers only the products written to the CSV
MainAppendCsv_remembers_named_only ==
    /\ InMain
    /\ call.pc = "jsonl_written"
    /\ LET named == named_only(call.unique_candidates)
       IN  call' = [call EXCEPT
                       !.pc = "batch",
                       !.csv = IF named # <<>> THEN append_final_csv(named, call.csv)
                               ELSE call.csv,
                       !.existing_pids = call.existing_pids \cup
                           {named[k].product_id : k \in 1..Len(named)},
                       !.total_processed = call.total_processed + Len(call.unique_candidates),
                       !.total_with_name = call.total_with_name + Len(named)]
    /\ UNCHANGED pipeline_vars

\* the named rows go to the final CSV, the products to existing_pids, the counts
\* to the totals
MainAppendCsv ==
    /\ InMain
    /\ call.pc = "jsonl_written"
    /\ LET named == named_only(call.unique_candidates)
       IN  call' = [call EXCEPT
                       !.pc = "batch",
                       !.csv = IF named # <<>> THEN append_final_csv(named, call.csv)
                               ELSE call.csv,
                       !.existing_pids = call.existing_pids \cup
                           {call.unique_candidates[k].product_id :
                               k \in 1..Len(call.unique_candidates)},
                       !.total_processed = call.total_processed + Len(call.unique_candidates),
                       !.total_with_name = call.total_with_name + Len(named)]
    /\ UNCHANGED pipeline_vars

\* the stream of batches is exhausted
MainDone ==
    /\ InMain
    /\ call.pc = "batch"
    /\ call' = [call EXCEPT !.pc = "done"]
    /\ UNCHANGED pipeline_vars

MainInit ==
    /\ cf_scraper = FALSE
    /\ debug_saved = 0
    /\ pc = "idle"
    /\ record = None
    /\ html = None
    /\ fetches = 0
    /\ returned = <<>>
    /\ http = IdleHttp
    /\ call \in {MainCall(jsonl, csv) : jsonl \in {None, Some(<<>>), Some(EARLIER_JSONL)},
                                         csv \in {None, Some(<<>>), Some(EARLIER_CSV)}}

MainNext ==
    \/ MainSkipBatch
    \/ MainCrawlBatch
    \/ MainAppendJsonl
    \/ MainAppendCsv
    \/ MainDone

SpecMain == MainInit /\ [][MainNext]_vars

IsPrefix(s, t) == Len(s) <= Len(t) /\ SubSeq(t, 1, Len(s)) = s

\* a step of main as the sink requires it
C29_Step ==
    /\ IsPrefix(FileLines(call.jsonl), FileLines(call'.jsonl))
    /\ IsPrefix(FileLines(call.csv), FileLines(call'.csv))
    /\ call.jsonl # None => call'.jsonl # None
    /\ call.csv # None => call'.csv # None
    /\ call.pc = "crawled" =>
          FileLines(call'.jsonl) = FileLines(call.jsonl)
              \o [k \in 1..Len(call.candidates) |-> JsonLine(call.candidates[k])]
    /\ \A k \in (Len(FileLines(call.csv)) + 1)..Len(FileLines(call'.csv)) :
          FileLines(call'.csv)[k].line = "row" => NameTruthy(FileLines(call'.csv)[k].row.product_name)

\* C29: the lines of both artifacts are only added to; the step that follows a
\* crawl adds one line per returned outcome, whatever its status, to the
\* candidates file; every row added to the final CSV carries a product_name
C29_ArtifactsAppendOnly == [][InMain => C29_Step]_vars

\* after two batches on the artifacts of an earlier run: the candidates file has
\* gained an unnamed line, the final CSV only named rows, and both still begin
\* with what they held
C29_Witness ==
    /\ InMain
    /\ call.pc = "batch"
    /\ call.batch_count = 2
    /\ call.existing_pids = {"7", "8"}
    /\ IsPrefix(EARLIER_JSONL, FileLines(call.jsonl))
    /\ IsPrefix(EARLIER_CSV, FileLines(call.csv))
    /\ \E k \in 1..Len(FileLines(call.jsonl)) : ~NameTruthy(FileLines(call.jsonl)[k].row.product_name)
    /\ Len(FileLines(call.csv)) = 4
    /\ \A k \in 2..4 : NameTruthy(FileLines(call.csv)[k].row.product_name)

\* C30: once append_final_csv has been called, whatever the path held before, the
\* file has exactly one header row and it is the first line
C30_OneHeaderFirst ==
    (InMain /\ call.total_with_name > 0) =>
        /\ Cardinality({k \in 1..Len(FileLines(call.csv)) : FileLines(call.csv)[k] = HeaderLine}) = 1
        /\ FileLines(call.csv)[1] = HeaderLine

(***************************************************************************)
(* The debug dump of process_single_url under concurrent workers.  Each    *)
(* worker of the pool runs the dump block of one page after another; the   *)
(* block tests _DEBUG_HTML_SAVED, builds the file name from the time and   *)
(* the counter, writes the file and increments the counter, with no lock   *)
(* around any of it, so the steps of different workers interleave.  The   *)
(* pages of the model are of one host, so that a file name is the pair of  *)
(* the time and the counter.                                               *)
(***************************************************************************)
DumpWorkers == 2

MaxDumps == 11

MaxClock == 1

dump_unchanged == <<cf_scraper, pc, record, html, fetches, returned, http>>

IdleWorker == [pc |-> "idle", fname |-> None, loaded |-> 0]

DumpCall ==
    [fn |-> "debug_dump", workers |-> [w \in 1..DumpWorkers |-> IdleWorker],
     files |-> {}, written |-> 0, overwritten |-> FALSE, clock |-> 0]

InDump == call.fn = "debug_dump"

\* if _DEBUG_HTML_SAVED < _DEBUG_HTML_MAX
DumpCheck(w) ==
    /\ InDump
    /\ call.workers[w].pc = "idle"
    /\ call.written < MaxDumps
    /\ call' = [call EXCEPT !.workers[w].pc =
                   IF debug_saved < DEBUG_HTML_MAX THEN "name" ELSE "idle"]
    /\ UNCHANGED debug_saved
    /\ UNCHANGED dump_unchanged

\* fname = f"debug_html_{host}_{int(time.time())}_{_DEBUG_HTML_SAVED}.html"
DumpName(w) ==
    /\ InDump
    /\ call.workers[w].pc = "name"
    /\ call' = [call EXCEPT !.workers[w].pc = "write",
                            !.workers[w].fname = Some(<<call.clock, debug_saved>>)]
    /\ UNCHANGED debug_saved
    /\ UNCHANGED dump_unchanged

\* with open(fname, 'w') as f: f.write(html); an exception ends the block
DumpWrite(w) ==
    /\ InDump
    /\ call.workers[w].pc = "write"
    /\ \E write_ok \in BOOLEAN :
          IF write_ok
          THEN call' = [call EXCEPT
                           !.workers[w].pc = "load",
                           !.files = call.files \cup {call.workers[w].fname.val},
                           !.written = call.written + 1,
                           !.overwritten = call.overwritten
                                              \/ call.workers[w].fname.val \in call.files]
          ELSE call' = [call EXCEPT !.workers[w] = IdleWorker]
    /\ UNCHANGED debug_saved
    /\ UNCHANGED dump_unchanged

\* _DEBUG_HTML_SAVED += 1, the read
DumpLoad(w) ==
    /\ InDump
    /\ call.workers[w].pc = "load"
    /\ call' = [call EXCEPT !.workers[w].pc = "store", !.workers[w].loaded = debug_saved]
    /\ UNCHANGED debug_saved
    /\ UNCHANGED dump_unchanged

\* _DEBUG_HTML_SAVED += 1, the write
DumpStore(w) ==
    /\ InDump
    /\ call.workers[w].pc = "store"
    /\ debug_saved' = call.workers[w].loaded + 1
    /\ call' = [call EXCEPT !.workers[w] = IdleWorker]
    /\ UNCHANGED dump_unchanged

\* int(time.time()) moves on
DumpTick ==
    /\ InDump
    /\ call.clock < MaxClock
    /\ call' = [call EXCEPT !.clock = call.clock + 1]
    /\ UNCHANGED debug_saved
    /\ UNCHANGED dump_unchanged

DumpInit ==
    /\ cf_scraper = FALSE
    /\ debug_saved = 0
    /\ pc = "idle"
    /\ record = None
    /\ html = None
    /\ fetches = 0
    /\ returned = <<>>
    /\ http = IdleHttp
    /\ call = DumpCall

DumpNext ==
    \/ \E w \in 1..DumpWorkers : DumpCheck(w)
    \/ \E w \in 1..DumpWorkers : DumpName(w)
    \/ \E w \in 1..DumpWorkers : DumpWrite(w)
    \/ \E w \in 1..DumpWorkers : DumpLoad(w)
    \/ \E w \in 1..DumpWorkers : DumpStore(w)
    \/ DumpTick

SpecDump == DumpInit /\ [][DumpNext]_vars

\* C31: the number of debug files written in a run never exceeds the cap
C31_DumpsWithinCap ==
    InDump => Cardinality(call.files) <= DEBUG_HTML_MAX

\* C38: the counter never decreases; when no worker is inside the dump block it
\* equals the number of debug files written; no dump is written to the name of
\* another
C38_CounterCountsDistinctFiles ==
    /\ [][InDump => debug_saved' >= debug_saved]_vars
    /\ []((InDump /\ \A w \in 1..DumpWorkers : call.workers[w].pc = "idle")
             => debug_saved = call.written)
    /\ [](InDump => ~call.overwritten)

(***************************************************************************)
(* Further properties of process_single_url and its parts                  *)
(***************************************************************************)
\* a "pageType" marker and the word "cart", each in any letter case
has_pagetype_and_cart(doc) ==
    /\ contains(lower(Raw(doc)), <<"p", "a", "g", "e", "t", "y", "p", "e">>)
    /\ contains(lower(Raw(doc)), <<"c", "a", "r", "t">>)

PageTypeCartOf == <<>> @@ [p \in Pages |-> has_pagetype_and_cart(p)]

\* C32: is_non_product_page is true of every page that holds a pageType marker
\* and the word cart, whatever the other rules say
C32_PageTypeCartFlagged ==
    (Truthy(html) /\ PageTypeCartOf[html]) => NonProductOf[html]

\* the generic phrases that a name of the selector chain must not hold
DENYLIST ==
    <<<<"4", "0", "4">>, <<"n", "o", "t", " ", "f", "o", "u", "n", "d">>, <<"e", "r", "r", "o", "r">>, <<"h", "o", "m", "e">>, <<"s", "h", "o", "p">>, <<"s", "t", "o", "r", "e">>, <<"c", "a", "t", "a", "l", "o", "g">>, <<"p", "r", "o", "d", "u", "c", "t", "s">>>>

\* the call has returned and no stage before the selector chain gave a name
FromSelectorChain ==
    /\ ExtractReturned
    /\ ~has_bot_wall(call.doc)
    /\ structured_data_stage(Decompose(Soup(call.doc)).scripts) = None
    /\ data_layer_stage(call.doc) = None
    /\ window_product_stage(call.doc) = None

\* the selectors that have a text of acceptable length on the page of the call
WithText ==
    {i \in 1..Len(selectors) :
        LET text == selector_text(Soup(call.doc), selectors[i])
        IN  text # None /\ Len(text.val) > 3 /\ Len(text.val) < 300}

\* the cleaned text of selector i
CleanedText(i) == selector_cleaning(selector_text(Soup(call.doc), selectors[i]).val)

Denied(i) == contains_any(lower(CleanedText(i)), DENYLIST)

\* C34: a name accepted from the selector chain holds no phrase of the denylist, and a
\* selector whose cleaned text is rejected by the denylist does not end the extraction:
\* the result is the cleaned text of the first selector that is not rejected
C34_DenylistSkipsToNextSelector ==
    FromSelectorChain =>
       /\ call.result # None => ~contains_any(lower(call.result.val), DENYLIST)
       /\ \A i \in WithText :
             (~Denied(i) /\ \A j \in WithText : j < i => Denied(j))
                => call.result = Some(CleanedText(i))

\* an earlier selector is rejected by the denylist and a later one gives the name
C34_Witness ==
    /\ FromSelectorChain
    /\ call.result # None
    /\ \E j \in WithText : \E i \in WithText :
          j < i /\ Denied(j) /\ ~Denied(i) /\ call.result = Some(CleanedText(i))

BotWallOf == <<>> @@ [p \in Pages |-> has_bot_wall(p)]

UNSUCCESSFUL_AFTER_BOT_WALL == {"slug_heuristic", "no_name_found", "non_product_page"}

\* the page that the first http_get of the call returned
FirstFetched == IF pc = "fetch" THEN http.result ELSE html

C35_StepAsStated ==
    (/\ pc \in {"fetch", "recover"}
     /\ pc' = "done"
     /\ Truthy(FirstFetched)
     /\ BotWallOf[FirstFetched]) =>
        returned'[Len(returned')].status \in UNSUCCESSFUL_AFTER_BOT_WALL

\* C35: when the fetched page holds a bot-challenge indicator, process_single_url
\* never ends in success: it ends in slug_heuristic, no_name_found or non_product_page
C35_BotPageNeverSuccess == [][C35_StepAsStated]_vars

\* C35, amended: when the page that process_single_url examines at its end (the
\* fetched page, or the page of the recovery fetch when it replaced the fetched page)
\* holds a bot-challenge indicator, the outcome is non_product_page if the page is
\* classified so, else slug_heuristic with the name of the slug if the slug gives one,
\* else no_name_found, and never success; a 200 answer with such a body ends http_get
\* without a request of the hardened client on account of the body
C35_ExaminedBotPageNeverSuccess ==
    /\ (pc = "done" /\ Truthy(html) /\ BotWallOf[html]) =>
          \A out \in Returned :
             /\ out.status \in UNSUCCESSFUL_AFTER_BOT_WALL
             /\ out.status = "non_product_page" <=> NonProductOf[html]
             /\ out.status = "slug_heuristic" =>
                   /\ contains(out.url.path, <<".", "h", "t", "m", "l">>)
                   /\ NameTruthy(out.product_name)
                   /\ out.product_name = SlugNameOf[out.url]
             /\ out.status = "no_name_found" => ~NameTruthy(SlugNameOf[out.url])
    /\ (/\ http.pc = "returned"
        /\ http.attempt = 1
        /\ http.status = 200
        /\ Truthy(http.result)
        /\ BotWallOf[http.result]) =>
          http.n_cf = IF cf_scraper /\ IsHardHost(http.url) THEN 1 ELSE 0

\* a challenge page with a <title> was fetched and the name came from the slug
C35_Witness ==
    /\ pc = "done"
    /\ fetches = 1
    /\ Truthy(html)
    /\ BotWallOf[html]
    /\ html.els # <<>>
    /\ \E out \in Returned : out.status = "slug_heuristic"

\* the first fetch has returned a page that is classified non-product
NonProductFetched ==
    /\ pc = "fetch"
    /\ http.pc = "returned"
    /\ Truthy(http.result)
    /\ NonProductOf[http.result]

\* the step ends the call without a second fetch, with non_product_page
EndsWithoutRecovery ==
    /\ pc' = "done"
    /\ fetches' = fetches
    /\ returned'[Len(returned')].status = "non_product_page"

C36_StepAsStated ==
    (/\ NonProductFetched
     /\ \/ CanonicalOf[http.result] = record.url
        \/ /\ CanonicalOf[http.result] = None
           /\ record.url.query = <<>>
           /\ record.url.fragment = <<>>) => EndsWithoutRecovery

\* C36: no second fetch is issued when the page's canonical link equals the record's
\* URL, nor when the page has no canonical link and the record's URL has no query
\* string or fragment; the outcome is then non_product_page
C36_NoRecoveryToSameUrl == [][C36_StepAsStated]_vars

C36_StepAmended ==
    (/\ NonProductFetched
     /\ \/ CanonicalOf[http.result] = record.url
        \/ /\ CanonicalOf[http.result] = None
           /\ StripQueryFragment(record.url) = record.url) => EndsWithoutRecovery

\* C36, amended: no second fetch is issued when the page's canonical link equals the
\* record's URL (the stripped URL is not tried), nor when the page has no canonical
\* link and the record's URL is what urlunparse gives for its scheme, host and path
\* alone: no query string, no fragment and no path parameters; the outcome is then
\* non_product_page
C36_NoRecoveryToUnchangedUrl == [][C36_StepAmended]_vars

\* the canonical link of a cart page was the record's URL, which has a query string,
\* and the call ended after one fetch
C36_Witness ==
    /\ pc = "done"
    /\ fetches = 1
    /\ Truthy(html)
    /\ NonProductOf[html]
    /\ CanonicalOf[html] = record.url
    /\ record.url.query # <<>>
    /\ \E out \in Returned : out.status = "non_product_page"

RETURNED_STATUSES == {"success", "slug_heuristic", "non_product_page", "no_name_found", "no_html"}

\* C37: no OutcomeRecord returned by process_single_url has status failed: a call
\* that raises returns no record, and a returned record has one of the statuses
\* success, slug_heuristic, non_product_page, no_name_found, no_html
C37_NeverFailed ==
    /\ \A out \in Returned : out.status # "failed" /\ out.status \in RETURNED_STATUSES
    /\ pc = "raised" => returned = <<>>

\* a call whose fetch gave nothing has returned: the branch that replaces the
\* initial status "failed" last
C37_Witness ==
    /\ pc = "done"
    /\ ~Truthy(html)
    /\ \E out \in Returned : out.status = "no_html"

\* the first http_get has returned the empty text of a 200 answer
EmptyBodyFetched ==
    /\ pc = "fetch"
    /\ http.pc = "returned"
    /\ http.status = 200
    /\ http.result # None
    /\ Raw(http.result) = <<>>

C40_Step ==
    EmptyBodyFetched =>
       /\ pc' = "done"
       /\ returned' = <<[product_id |-> record.product_id, url |-> record.url,
                         source_collection |-> record.source_collection,
                         product_name |-> None, status |-> "no_html"]>>
       /\ fetches' = fetches
       /\ debug_saved' = debug_saved

\* C40: on HTTP 200 with an empty body http_get returns the empty text, and
\* process_single_url then returns status no_html with product_name absent, without
\* classification, recovery fetch, extraction, slug fallback or debug dump
C40_EmptyBodyGivesNoHtml ==
    /\ []((http.pc = "returned" /\ http.status = 200) => http.result # None)
    /\ [][C40_Step]_vars

\* the call has returned for a URL with a usable slug whose page came back empty
C40_Witness ==
    /\ pc = "done"
    /\ html # None
    /\ Raw(html) = <<>>
    /\ NameTruthy(SlugNameOf[record.url])
    /\ \E out \in Returned : out.status = "no_html"

(***************************************************************************)
(* stream_filtered_data_batches: the generator that reads the filtered     *)
(* records and yields them in batches.  A line of the JSONL file is given   *)
(* by what json.loads makes of it after strip(): a record, or a             *)
(* JSONDecodeError (a blank line and a line that is no JSON).  A row of the *)
(* CSV file, read when the JSONL file does not exist, is always a record.  *)
(* The generator is suspended at each yield until the consumer asks for    *)
(* the next batch.                                                         *)
(***************************************************************************)
MaxLines == 4

MaxBatchSize == 3

StreamRecords == {"1", "2"}

GoodLine(product_id) == [text |-> "json", decoded |-> Some(product_id)]

BLANK_LINE == [text |-> "", decoded |-> None]

BROKEN_LINE == [text |-> "{", decoded |-> None]

StreamLines == {GoodLine(r) : r \in StreamRecords} \cup {BLANK_LINE, BROKEN_LINE}

StreamRows == {GoodLine(r) : r \in StreamRecords}

SeqsUpTo(S, n) == UNION {[1..k -> S] : k \in 0..n}

StreamCall(jsonl_exists, lines, batch_size) ==
    [fn |-> "stream_filtered_data_batches", pc |-> "loop", jsonl_exists |-> jsonl_exists,
     lines |-> lines, batch_size |-> batch_size, line_num |-> 0,
     current_batch |-> <<>>, yielded |-> <<>>, warnings |-> 0]

InStream == call.fn = "stream_filtered_data_batches"

\* one iteration of the loop over the JSONL file: a decoded record is appended and the
\* batch is yielded when it is full; a line that does not decode is logged and skipped
StreamLine ==
    /\ InStream
    /\ call.pc = "loop"
    /\ call.jsonl_exists
    /\ call.line_num < Len(call.lines)
    /\ LET line == call.lines[call.line_num + 1]
       IN  IF line.decoded = None
           THEN call' = [call EXCEPT !.line_num = call.line_num + 1,
                                     !.warnings = call.warnings + 1]
           ELSE LET batch == Append(call.current_batch, line.decoded.val)
                IN  IF Len(batch) >= call.batch_size
                    THEN call' = [call EXCEPT !.line_num = call.line_num + 1,
                                              !.current_batch = batch,
                                              !.yielded = Append(call.yielded, batch),
                                              !.pc = "yield"]
                    ELSE call' = [call EXCEPT !.line_num = call.line_num + 1,
                                              !.current_batch = batch]
    /\ UNCHANGED pipeline_vars

\* one iteration of the loop over the rows of the CSV file
StreamRow ==
    /\ InStream
    /\ call.pc = "loop"
    /\ ~call.jsonl_exists
    /\ call.line_num < Len(call.lines)
    /\ LET batch == Append(call.current_batch, call.lines[call.line_num + 1].decoded.val)
       IN  IF Len(batch) >= call.batch_size
           THEN call' = [call EXCEPT !.line_num = call.line_num + 1,
                                     !.current_batch = batch,
                                     !.yielded = Append(call.yielded, batch),
                                     !.pc = "yield"]
           ELSE call' = [call EXCEPT !.line_num = call.line_num + 1,
                                     !.current_batch = batch]
    /\ UNCHANGED pipeline_vars

\* the consumer asks for the next batch: current_batch = [] and the loop goes on
StreamResume ==
    /\ InStream
    /\ call.pc = "yield"
    /\ call' = [call EXCEPT !.current_batch = <<>>, !.pc = "loop"]
    /\ UNCHANGED pipeline_vars

\* a variant of StreamEnd that ends without the batch that was not filled
StreamEnd_without_last_batch ==
    /\ InStream
    /\ call.pc = "loop"
    /\ call.line_num = Len(call.lines)
    /\ call' = [call EXCEPT !.pc = "done"]
    /\ UNCHANGED pipeline_vars

\* after the loop: if current_batch: yield current_batch
StreamEnd ==
    /\ InStream
    /\ call.pc = "loop"
    /\ call.line_num = Len(call.lines)
    /\ call' = [call EXCEPT !.pc = "done",
                            !.yielded = IF call.current_batch # <<>>
                                        THEN Append(call.yielded, call.current_batch)
                                        ELSE call.yielded]
    /\ UNCHANGED pipeline_vars

StreamInit ==
    /\ cf_scraper = FALSE
    /\ debug_saved = 0
    /\ pc = "idle"
    /\ record = None
    /\ html = None
    /\ fetches = 0
    /\ returned = <<>>
    /\ http = IdleHttp
    /\ \E batch_size \in 1..MaxBatchSize :
          \/ \E lines \in SeqsUpTo(StreamLines, MaxLines) :
                call = StreamCall(TRUE, lines, batch_size)
          \/ \E lines \in SeqsUpTo(StreamRows, MaxLines) :
                call = StreamCall(FALSE, lines, batch_size)

StreamNext ==
    \/ StreamLine
    \/ StreamRow
    \/ StreamResume
    \/ StreamEnd

SpecStream == StreamInit /\ [][StreamNext]_vars

\* the records of the lines that decode, in the order of the lines
valid_records(lines) ==
    Concat(LAMBDA k : IF lines[k].decoded = None THEN <<>> ELSE <<lines[k].decoded.val>>,
           Len(lines))

\* the batches put end to end
flatten(batches) == Concat(LAMBDA k : batches[k], Len(batches))

\* C33: the batches yielded are non-empty and hold at most batch_size records, every
\* batch but the last holds exactly batch_size, and the batches put end to end are the
\* valid records of the input in input order, none lost and none duplicated
C33_BatchesKeepValidRecords ==
    InStream =>
       /\ \A k \in 1..Len(call.yielded) :
             /\ call.yielded[k] # <<>>
             /\ Len(call.yielded[k]) <= call.batch_size
             /\ k < Len(call.yielded) => Len(call.yielded[k]) = call.batch_size
       /\ call.pc = "done" => flatten(call.yielded) = valid_records(call.lines)
       /\ call.pc = "loop" =>
             flatten(call.yielded) \o call.current_batch
                = valid_records(SubSeq(call.lines, 1, call.line_num))

\* a finished run over a file with an invalid line between valid ones, a full batch
\* and a last batch that is not full
C33_Witness ==
    /\ InStream
    /\ call.pc = "done"
    /\ call.jsonl_exists
    /\ call.warnings > 0
    /\ Len(call.yielded) = 2
    /\ Len(call.yielded[2]) < call.batch_size
    /\ \E k \in 2..(Len(call.lines) - 1) :
          /\ call.lines[k].decoded = None
          /\ call.lines[k - 1].decoded # None
          /\ call.lines[k + 1].decoded # None

\* the product_ids of the data rows of a file, in file order
RowPids(file) ==
    Concat(LAMBDA k : IF FileLines(file)[k].line = "row"
                      THEN <<FileLines(file)[k].row.product_id>> ELSE <<>>,
           Len(FileLines(file)))

C39_Step ==
    (InMain /\ call.pc = "batch" /\ call'.pc = "crawled") =>
        \A k \in 1..Len(call'.url_records) : call'.url_records[k] \notin call.outcome_pids

\* C39: in a run of main that starts with no final CSV, no two rows of the final
\* CSV have the same product_id, and no record is crawled whose product_id had a
\* deduplicated outcome, named or not, in an earlier batch
C39_OneCsvRowPerProduct ==
    /\ []((InMain /\ call.csv_at_start = None) =>
             \A j, k \in 1..Len(RowPids(call.csv)) :
                 RowPids(call.csv)[j] = RowPids(call.csv)[k] => j = k)
    /\ [][C39_Step]_vars

\* the second batch held a record of a product whose outcome in the first batch had
\* no name; it was filtered out and the other product was crawled and written
C39_Witness ==
    /\ InMain
    /\ call.csv_at_start = None
    /\ call.batch_count = 2
    /\ call.pc = "batch"
    /\ call.filtered_out > 0
    /\ call.outcome_pids = {"7", "8"}
    /\ RowPids(call.csv) = <<"8">>
====
